---- MODULE Spec2Model ----
(***************************************************************************)
(* A model of the progressive YouTube search of nexus-search               *)
(* (src/yt_search.py): the query cleaning helpers, build_search_queries,   *)
(* _yt_search, _pick_best and the search_youtube loop.                     *)
(*                                                                         *)
(* A Python str is a sequence of one-character strings.  An optional value *)
(* (None or a value) is the empty sequence or a one-element sequence.      *)
(* A duration is an integer number of milliseconds: duration_s and         *)
(* target_s = target_ms / 1000.0 are compared after scaling both by 1000.  *)
(***************************************************************************)
EXTENDS Integers, Sequences, FiniteSets, TLC

\* ------------------------------------------------------------------ bounds

\* A generated title is the concatenation of at most this many TitlePieces.
MaxTitlePieces == 3

\* The backend prints at most this many lines on its standard output.
MaxLines == 2

\* A candidate list handed to _pick_best directly has at most this many
\* candidates.
MaxCandidates == 2

\* The CSV read by youtube-search.py has at most this many rows.
MaxSongs == 2

\* ------------------------------------------------------------ Python str

None == <<>>
Some(v) == <<v>>

\* str.isspace (and the regular expressions' \s) for the characters of the
\* model: a blank, a tab and a line feed.
IsSpace(c) == c \in {" ", "\t", "\n"}

MinOf(S) == CHOOSE x \in S : \A y \in S : x <= y
MaxOf(S) == CHOOSE x \in S : \A y \in S : y <= x

Tail_(s, i) == SubSeq(s, i, Len(s))

\* str.lower over the ASCII letters.
ToLower ==
    "A" :> "a" @@ "B" :> "b" @@ "C" :> "c" @@ "D" :> "d" @@ "E" :> "e" @@
    "F" :> "f" @@ "G" :> "g" @@ "H" :> "h" @@ "I" :> "i" @@ "J" :> "j" @@
    "K" :> "k" @@ "L" :> "l" @@ "M" :> "m" @@ "N" :> "n" @@ "O" :> "o" @@
    "P" :> "p" @@ "Q" :> "q" @@ "R" :> "r" @@ "S" :> "s" @@ "T" :> "t" @@
    "U" :> "u" @@ "V" :> "v" @@ "W" :> "w" @@ "X" :> "x" @@ "Y" :> "y" @@
    "Z" :> "z"

lower(s) == [i \in 1..Len(s) |-> IF s[i] \in DOMAIN ToLower THEN ToLower[s[i]] ELSE s[i]]

\* str.strip(): leading and trailing whitespace removed.
strip(s) ==
    LET keep == {i \in 1..Len(s) : ~IsSpace(s[i])}
    IN  IF keep = {} THEN <<>> ELSE SubSeq(s, MinOf(keep), MaxOf(keep))

\* str.split(sep) for a one-character separator: empty fields are kept.
RECURSIVE split(_, _)
split(s, sep) ==
    LET at == {i \in 1..Len(s) : s[i] = sep}
    IN  IF at = {} THEN <<s>>
        ELSE <<SubSeq(s, 1, MinOf(at) - 1)>> \o split(Tail_(s, MinOf(at) + 1), sep)

\* str.split() without a separator: the whitespace-delimited words.
RECURSIVE split_ws(_)
split_ws(s) ==
    LET keep == {i \in 1..Len(s) : ~IsSpace(s[i])}
    IN  IF keep = {} THEN <<>>
        ELSE LET b == MinOf(keep)
                 sp == {i \in b..Len(s) : IsSpace(s[i])}
                 e == IF sp = {} THEN Len(s) + 1 ELSE MinOf(sp)
             IN  <<SubSeq(s, b, e - 1)>> \o split_ws(Tail_(s, e))

\* sep.join(parts)
RECURSIVE join(_, _)
join(sep, parts) ==
    IF parts = <<>> THEN <<>>
    ELSE IF Len(parts) = 1 THEN parts[1]
    ELSE parts[1] \o sep \o join(sep, Tail(parts))

\* ' '.join(q.split()): whitespace collapsed.
collapse(q) == join(<<" ">>, split_ws(q))

\* str.startswith(prefix)
startswith(s, prefix) == Len(s) >= Len(prefix) /\ SubSeq(s, 1, Len(prefix)) = prefix

\* ------------------------------------------------- query cleaning helpers

OpenChars == {"(", "["}
CloseChars == {")", "]"}

\* The index of the first character at or after i that is not whitespace
\* (Len(s) + 1 when there is none): where a greedy \s* started at i ends.
SkipSpace(s, i) ==
    LET stop == {j \in i..Len(s) : ~IsSpace(s[j])}
    IN  IF stop = {} THEN Len(s) + 1 ELSE MinOf(stop)

\* The index of the first closing mark after index j, 0 when there is none.
FirstClose(s, j) ==
    LET cl == {p \in (j + 1)..Len(s) : s[p] \in CloseChars}
    IN  IF cl = {} THEN 0 ELSE MinOf(cl)

\* The alternatives of (?:feat\.?|ft\.?|featuring|with), lower-cased.
FeatMarkers ==
    { <<"f","e","a","t">>, <<"f","e","a","t",".">>, <<"f","t">>, <<"f","t",".">>,
      <<"f","e","a","t","u","r","i","n","g">>, <<"w","i","t","h">> }

\* _PARENS_RE with the closing mark required to be of the kind of the opening
\* one: ( with ), [ with ].
ParensReSameKind(s, i) ==
    LET j == SkipSpace(s, i)
        want == IF j <= Len(s) /\ s[j] = "(" THEN ")" ELSE "]"
    IN  IF /\ j <= Len(s)
           /\ s[j] \in OpenChars
           /\ FirstClose(s, j) # 0
           /\ s[FirstClose(s, j)] = want
        THEN FirstClose(s, j) + 1 ELSE 0

\* _FEAT_RE with the opening and the closing mark optional: a bare
\* "feat. X" matches to the end of the text.
FeatReBracketsOptional(s, i) ==
    LET j == SkipSpace(s, i)
        k == IF j <= Len(s) /\ s[j] \in OpenChars THEN SkipSpace(s, j + 1) ELSE j
        p == FirstClose(s, j)
        e == IF p # 0 THEN p ELSE Len(s) + 1
        ok(m) == /\ k + Len(m) <= Len(s)
                 /\ lower(SubSeq(s, k, k + Len(m) - 1)) = m
                 /\ IsSpace(s[k + Len(m)])
                 /\ e > k + Len(m) + 1
    IN  IF j <= Len(s) /\ \E m \in FeatMarkers : ok(m)
        THEN (IF p # 0 THEN p + 1 ELSE Len(s) + 1) ELSE 0

\* _PARENS_RE matched at index i: the index after the match, 0 for no match.
\* \s* takes the whole run of whitespace, an opening mark follows, [^\)\]]*
\* runs to the first closing mark, which must exist.
_PARENS_RE(s, i) ==
    LET j == SkipSpace(s, i)
    IN  IF j <= Len(s) /\ s[j] \in OpenChars /\ FirstClose(s, j) # 0
        THEN FirstClose(s, j) + 1 ELSE 0

\* _FEAT_RE (IGNORECASE) matched at index i: the index after the match, 0 for
\* no match.  After the opening mark and \s*, some marker alternative must be
\* followed by a whitespace character (\s+) and then by at least one more
\* character before the first closing mark ([^\)\]]+, which also takes
\* whitespace that \s+ gives back).
_FEAT_RE(s, i) ==
    LET j == SkipSpace(s, i)
        k == SkipSpace(s, j + 1)
        p == FirstClose(s, j)
        ok(m) == /\ k + Len(m) <= Len(s)
                 /\ lower(SubSeq(s, k, k + Len(m) - 1)) = m
                 /\ IsSpace(s[k + Len(m)])
                 /\ p > k + Len(m) + 1
    IN  IF j <= Len(s) /\ s[j] \in OpenChars /\ p # 0 /\ \E m \in FeatMarkers : ok(m)
        THEN p + 1 ELSE 0

\* pattern.sub('', s, count=1): the leftmost match alone is removed.
RECURSIVE re_sub_feat_first(_, _)
re_sub_feat_first(s, i) ==
    IF i > Len(s) THEN <<>>
    ELSE IF _FEAT_RE(s, i) # 0 THEN Tail_(s, _FEAT_RE(s, i))
    ELSE <<s[i]>> \o re_sub_feat_first(s, i + 1)

\* pattern.sub('', s) from index i on: every non-overlapping match, leftmost
\* first, is removed.
RECURSIVE re_sub_feat(_, _)
re_sub_feat(s, i) ==
    IF i > Len(s) THEN <<>>
    ELSE IF _FEAT_RE(s, i) # 0 THEN re_sub_feat(s, _FEAT_RE(s, i))
    ELSE <<s[i]>> \o re_sub_feat(s, i + 1)

RECURSIVE re_sub_parens(_, _)
re_sub_parens(s, i) ==
    IF i > Len(s) THEN <<>>
    ELSE IF _PARENS_RE(s, i) # 0 THEN re_sub_parens(s, _PARENS_RE(s, i))
    ELSE <<s[i]>> \o re_sub_parens(s, i + 1)

_primary_artist(artist) == strip(split(artist, ";")[1])

_strip_featured(name) == strip(re_sub_feat(name, 1))

_strip_all_parens(name) == strip(re_sub_parens(name, 1))

_all_artists_spaced(artist) ==
    LET parts == split(artist, ";")
        kept == SelectSeq(parts, LAMBDA a : strip(a) # <<>>)
    IN  join(<<" ">>, [n \in 1..Len(kept) |-> strip(kept[n])])

\* -------------------------------------------------- build_search_queries

\* The six f-strings with " audio" written twice: the last one is the fifth
\* again.
QueryCandidatesAudioTwice(track_name, artist) ==
    LET primary == _primary_artist(artist)
        all_artists == _all_artists_spaced(artist)
        clean_feat == _strip_featured(track_name)
        clean_all == _strip_all_parens(track_name)
        sp == <<" ">>
    IN  << track_name \o sp \o all_artists,
           track_name \o sp \o primary,
           clean_feat \o sp \o primary,
           clean_all \o sp \o primary,
           track_name \o sp \o primary \o <<" ","a","u","d","i","o">>,
           track_name \o sp \o primary \o <<" ","a","u","d","i","o">> >>

\* The six f-strings of the for statement, in order.
QueryCandidates(track_name, artist) ==
    LET primary == _primary_artist(artist)
        all_artists == _all_artists_spaced(artist)
        clean_feat == _strip_featured(track_name)
        clean_all == _strip_all_parens(track_name)
        sp == <<" ">>
    IN  << track_name \o sp \o all_artists,
           track_name \o sp \o primary,
           clean_feat \o sp \o primary,
           clean_all \o sp \o primary,
           track_name \o sp \o primary \o <<" ","a","u","d","i","o">>,
           track_name \o sp \o primary \o <<" ","l","y","r","i","c","s">> >>

\* QueryLoop with the duplicate test made on the collapsed text as written,
\* not on its lower-cased form.
RECURSIVE QueryLoopCaseSensitive(_, _)
QueryLoopCaseSensitive(cands, n) ==
    IF n = 0 THEN [queries |-> <<>>, seen |-> {}]
    ELSE LET prev == QueryLoopCaseSensitive(cands, n - 1)
             norm == collapse(cands[n])
         IN  IF norm \notin prev.seen
             THEN [queries |-> Append(prev.queries, collapse(cands[n])),
                   seen |-> prev.seen \cup {norm}]
             ELSE prev

\* QueryLoop appending the lower-cased signature in place of the query.
RECURSIVE QueryLoopAppendsNorm(_, _)
QueryLoopAppendsNorm(cands, n) ==
    IF n = 0 THEN [queries |-> <<>>, seen |-> {}]
    ELSE LET prev == QueryLoopAppendsNorm(cands, n - 1)
             norm == lower(collapse(cands[n]))
         IN  IF norm \notin prev.seen
             THEN [queries |-> Append(prev.queries, norm),
                   seen |-> prev.seen \cup {norm}]
             ELSE prev

\* The body of the for statement applied to the first n candidates: the
\* values of queries and seen after n iterations.
RECURSIVE QueryLoop(_, _)
QueryLoop(cands, n) ==
    IF n = 0 THEN [queries |-> <<>>, seen |-> {}]
    ELSE LET prev == QueryLoop(cands, n - 1)
             norm == lower(collapse(cands[n]))
         IN  IF norm \notin prev.seen
             THEN [queries |-> Append(prev.queries, collapse(cands[n])),
                   seen |-> prev.seen \cup {norm}]
             ELSE prev

build_search_queries(track_name, artist) ==
    LET cands == QueryCandidates(track_name, artist)
    IN  QueryLoop(cands, Len(cands)).queries

\* ------------------------------------------------------------- _yt_search

\* str.splitlines() of a text whose only line boundary is the line feed.
splitlines(s) ==
    IF s = <<>> THEN <<>>
    ELSE LET parts == split(s, "\n")
         IN  IF parts[Len(parts)] = <<>> THEN SubSeq(parts, 1, Len(parts) - 1)
             ELSE parts

\* str.rsplit(None, 1): the last word split off; what is left of it keeps its
\* leading whitespace and loses its trailing whitespace.
rsplit1(line) ==
    LET keep == {i \in 1..Len(line) : ~IsSpace(line[i])}
    IN  IF keep = {} THEN <<>>
        ELSE LET e == MaxOf(keep)
                 sp == {i \in 1..e : IsSpace(line[i])}
                 b == IF sp = {} THEN 1 ELSE MaxOf(sp) + 1
                 head == {i \in 1..(b - 1) : ~IsSpace(line[i])}
             IN  IF head = {} THEN << SubSeq(line, b, e) >>
                 ELSE << SubSeq(line, 1, MaxOf(head)), SubSeq(line, b, e) >>

DigitValue ==
    "0" :> 0 @@ "1" :> 1 @@ "2" :> 2 @@ "3" :> 3 @@ "4" :> 4 @@
    "5" :> 5 @@ "6" :> 6 @@ "7" :> 7 @@ "8" :> 8 @@ "9" :> 9

RECURSIVE DecimalValue(_)
DecimalValue(ds) ==
    IF ds = <<>> THEN 0
    ELSE 10 * DecimalValue(SubSeq(ds, 1, Len(ds) - 1)) + DigitValue[ds[Len(ds)]]

\* float(dur_str), in thousandths: None stands for ValueError.  The tokens of
\* the model are digits with at most one point and at most three digits after
\* it; any other token of the model ("NA") is no number.
float(w) ==
    LET parts == split(w, ".")
        whole == parts[1]
        frac == IF Len(parts) = 2 THEN parts[2] ELSE <<>>
        pad == frac \o SubSeq(<<"0","0","0">>, 1, 3 - Len(frac))
    IN  IF /\ Len(parts) <= 2
           /\ Len(frac) <= 3
           /\ Len(whole) + Len(frac) > 0
           /\ \A i \in 1..Len(whole) : whole[i] \in DOMAIN DigitValue
           /\ \A i \in 1..Len(frac) : frac[i] \in DOMAIN DigitValue
        THEN Some(1000 * DecimalValue(whole) + DecimalValue(pad))
        ELSE None

http == <<"h","t","t","p">>

\* One iteration of the loop over the output lines: the candidates that the
\* line adds (none or one).
ParseLine(line) ==
    LET parts == rsplit1(line)
        url == IF Len(parts) = 2 THEN parts[1]
               ELSE IF parts # <<>> THEN parts[1] ELSE <<>>
        dur == IF Len(parts) = 2 /\ float(parts[2]) # None THEN float(parts[2])[1]
               ELSE 0
    IN  IF startswith(url, http) THEN << [url |-> url, duration_s |-> dur] >>
        ELSE <<>>

\* The loop over the output lines leaving at the first line that adds no
\* candidate (break in place of going on to the next line).
RECURSIVE ParseLinesStopsAtBad(_)
ParseLinesStopsAtBad(lines) ==
    IF lines = <<>> THEN <<>>
    ELSE IF ParseLine(lines[1]) = <<>> THEN <<>>
    ELSE ParseLine(lines[1]) \o ParseLinesStopsAtBad(Tail(lines))

RECURSIVE ParseLines(_)
ParseLines(lines) ==
    IF lines = <<>> THEN <<>>
    ELSE ParseLine(lines[1]) \o ParseLines(Tail(lines))

\* The exceptions named by the except clause.
CaughtExceptions == {"TimeoutExpired", "FileNotFoundError"}

\* _yt_search on one run of the subprocess.  run.exc is None when
\* subprocess.run returned, else the exception it raised.  The value has
\* raised = None and the candidate list, or the exception that leaves the
\* function.
_yt_search(run) ==
    IF run.exc # None
    THEN IF run.exc[1] \in CaughtExceptions
         THEN [raised |-> None, candidates |-> <<>>]
         ELSE [raised |-> run.exc, candidates |-> <<>>]
    ELSE IF run.returncode # 0
    THEN [raised |-> None, candidates |-> <<>>]
    ELSE [raised |-> None, candidates |-> ParseLines(splitlines(strip(run.stdout)))]

\* ------------------------------------------------------------- _pick_best

Abs(x) == IF x < 0 THEN -x ELSE x

\* min taking the last of the elements whose key is the least.
MinByDistanceLast(seq, target) ==
    LET i == CHOOSE i \in 1..Len(seq) :
                 /\ \A j \in 1..Len(seq) :
                        Abs(seq[i].duration_s - target) <= Abs(seq[j].duration_s - target)
                 /\ \A j \in (i + 1)..Len(seq) :
                        Abs(seq[j].duration_s - target) > Abs(seq[i].duration_s - target)
    IN  seq[i]

\* min(seq, key): the first element whose key is the least.
MinByDistance(seq, target) ==
    LET i == CHOOSE i \in 1..Len(seq) :
                 /\ \A j \in 1..Len(seq) :
                        Abs(seq[i].duration_s - target) <= Abs(seq[j].duration_s - target)
                 /\ \A j \in 1..(i - 1) :
                        Abs(seq[j].duration_s - target) > Abs(seq[i].duration_s - target)
    IN  seq[i]

\* The filter with candidates of duration 0 (no duration known) left out.
ReasonableSkipsUnknown(candidates, target_ms) ==
    SelectSeq(candidates,
              LAMBDA c : c.duration_s > 0 /\ c.duration_s <= target_ms * 3)

\* The candidates kept by the filter on duration_s <= target_s * 3.
Reasonable(candidates, target_ms) ==
    SelectSeq(candidates, LAMBDA c : c.duration_s <= target_ms * 3)

\* The candidate bound to best, for a non-empty list and a positive target.
BestCandidate(candidates, target_ms) ==
    LET filtered == Reasonable(candidates, target_ms)
        reasonable == IF filtered = <<>> THEN candidates ELSE filtered
    IN  MinByDistance(reasonable, target_ms)

\* _pick_best rejecting a best candidate that is off the target by more than
\* the target itself.
PickBestRejectsFar(candidates, target_ms) ==
    IF candidates = <<>> THEN None
    ELSE IF target_ms = None \/ target_ms[1] <= 0 THEN Some(candidates[1].url)
    ELSE IF Abs(BestCandidate(candidates, target_ms[1]).duration_s - target_ms[1])
                > target_ms[1]
    THEN None
    ELSE Some(BestCandidate(candidates, target_ms[1]).url)

\* _pick_best without "or target_ms <= 0".
PickBestNoneOnly(candidates, target_ms) ==
    IF candidates = <<>> THEN None
    ELSE IF target_ms = None THEN Some(candidates[1].url)
    ELSE Some(BestCandidate(candidates, target_ms[1]).url)

\* _pick_best without the fall back to the unfiltered list.
PickBestNoFallback(candidates, target_ms) ==
    IF candidates = <<>> THEN None
    ELSE IF target_ms = None \/ target_ms[1] <= 0 THEN Some(candidates[1].url)
    ELSE IF Reasonable(candidates, target_ms[1]) = <<>> THEN None
    ELSE Some(BestCandidate(candidates, target_ms[1]).url)

_pick_best(candidates, target_ms) ==
    IF candidates = <<>> THEN None
    ELSE IF target_ms = None \/ target_ms[1] <= 0 THEN Some(candidates[1].url)
    ELSE Some(BestCandidate(candidates, target_ms[1]).url)

\* --------------------------------------------------------- search_youtube

DigitChars == <<"0","1","2","3","4","5","6","7","8","9">>

\* str(n) for n >= 0, as an f-string formats an int.
RECURSIVE str(_)
str(n) ==
    IF n < 10 THEN << DigitChars[n + 1] >>
    ELSE str(n \div 10) \o << DigitChars[(n % 10) + 1] >>

\* The description with the index counted from 0 (enumerate without its start).
StrategyTextFromZero(idx, total, query) ==
    <<"s","t","r","a","t","e","g","y"," ">> \o str(idx - 1) \o <<"/">> \o str(total)
        \o <<":"," ","\"">> \o query \o <<"\"">>

\* f"strategy {idx}/{len(queries)}: \"{query}\""
StrategyText(idx, total, query) ==
    <<"s","t","r","a","t","e","g","y"," ">> \o str(idx) \o <<"/">> \o str(total)
        \o <<":"," ","\"">> \o query \o <<"\"">>

\* f"No results after {len(queries)} search strategies"
FailureText(total) ==
    <<"N","o"," ","r","e","s","u","l","t","s"," ","a","f","t","e","r"," ">>
        \o str(total)
        \o <<" ","s","e","a","r","c","h"," ","s","t","r","a","t","e","g","i","e","s">>

\* ----------------------------------------------------------------- inputs

TitlePieces ==
    { <<"S","o">>, <<" ","\t">>, <<"(","F","t"," ">>, <<"X",")">>, <<"(">>, <<"]">> }

\* The concatenations of at most n title pieces.
RECURSIVE PieceTitles(_)
PieceTitles(n) ==
    IF n = 0 THEN { <<>> }
    ELSE PieceTitles(n - 1) \cup
         { t \o p : t \in PieceTitles(n - 1), p \in TitlePieces }

SongFeatX == <<"S","o","n","g"," ","(","f","e","a","t","."," ","X",")">>

ExampleTitles ==
    { SongFeatX,
      <<"S","o","n","g"," ","f","e","a","t","."," ","X">>,
      <<"S","o","n","g"," ","(","R","e","m","i","x",")"," ","[","L","i","v","e","]">>,
      <<"S"," ","(","f","t"," ","X",")"," ","[","L","]">>,
      <<"x">>,
      \* "Song ((feat. X) feat. Y)" and "Song (feat. X) (ft. Y) [Live]"
      <<"S","o","n","g"," ","(","(","f","e","a","t","."," ","X",")"," ",
        "f","e","a","t","."," ","Y",")">>,
      <<"S","o","n","g"," ","(","f","e","a","t","."," ","X",")"," ",
        "(","f","t","."," ","Y",")"," ","[","L","i","v","e","]">> }

Titles == PieceTitles(MaxTitlePieces) \cup ExampleTitles

ArtistSpecs ==
    { <<>>, <<"A">>, <<"A",";","B">>, <<" ","a"," ",";",";","\t","A"," ">>,
      <<"a",";","A","u","d","i","o">>, <<";","B">> }

\* The tracks resolved end to end: five, three, six and three strategies.
Tracks ==
    { [track_name |-> SongFeatX, artist |-> <<"A",";","B">>],
      [track_name |-> <<>>, artist |-> <<>>],
      [track_name |-> <<"S"," ","(","f","t"," ","X",")"," ","[","L","]">>,
       artist |-> <<"A",";","B">>],
      [track_name |-> <<"x">>, artist |-> <<"a",";","A","u","d","i","o">>] }

DurationHints == { None, Some(0), Some(-5), Some(60000), Some(180000), Some(200000) }

https(c) == <<"h","t","t","p","s",":","/","/",c>>

\* The lines the backend may print: "<webpage_url> <duration>".
OutputLines ==
    { https("a") \o <<" ","2","0","0">>,
      https("b") \o <<" ","1","8","1">>,
      https("c") \o <<" ","1","7","9">>,
      https("d") \o <<" ","9","0","0">>,
      https("e") \o <<" ","N","A">>,
      https("f"),
      <<>>,
      <<"f","t","p",":","/","/","g"," ","1","8","0">> }

RECURSIVE JoinLines(_)
JoinLines(lines) ==
    IF lines = <<>> THEN <<>>
    ELSE lines[1] \o <<"\n">> \o JoinLines(Tail(lines))

\* The limit n goes to the backend on its command line only: how many lines
\* come back is the backend's choice.
Stdouts ==
    { JoinLines(ls) : ls \in UNION { [1..n -> OutputLines] : n \in 0..MaxLines } }

\* The candidate lists that _pick_best is called with directly: the function
\* takes any list of SearchCandidate, whatever the URLs are.
CandidateUrls == { https("a"), https("b"), <<"f","t","p",":","/","/","g">> }

CandidateDurations == { 0, 179000, 181000, 900000 }

CandidateLists ==
    UNION { [1..n -> [url : CandidateUrls, duration_s : CandidateDurations]] :
            n \in 0..MaxCandidates }

\* What subprocess.run can raise: the timeout, a missing executable, an
\* executable that may not be run, output that text=True cannot decode.
Exceptions ==
    { "TimeoutExpired", "FileNotFoundError", "PermissionError", "UnicodeDecodeError" }

\* ------------------------------------------------------------------ state

VARIABLES
    track_name,   \* argument of search_youtube
    artist,       \* argument of search_youtube
    duration_ms,  \* argument of search_youtube: None or Some(milliseconds)
    pc,           \* where the call is
    queries,      \* local: the strategies
    idx,          \* local: the 1-based index of the strategy at hand
    candidates,   \* local: what _yt_search returned last
    url,          \* local: what _pick_best returned last
    result,       \* None, or Some(<<url, description>>) once returned
    raised,       \* None, or Some(exception) once one has left the call
    searched,     \* history: the queries passed to _yt_search, in order
    ranked,       \* history: the values _pick_best returned, in order
    outcome,      \* history: how the latest subprocess.run ended, None before
    stdout,       \* local of _yt_search: Some(result.stdout) of the run whose
                  \* candidates await ranking, None otherwise
    cleaned,      \* the values the four normalizer functions returned, one
                  \* record per round of application
    calls,        \* the locals of each of the interleaved search_youtube calls
    disk,         \* the files and directories that a script reads and writes
    script        \* the locals of the script that is running

vars == << track_name, artist, duration_ms, pc, queries, idx, candidates, url,
           result, raised, searched, ranked, outcome, stdout, cleaned, calls, disk, script >>

Locals0 ==
    /\ pc = "NotStarted"
    /\ queries = <<>>
    /\ idx = 0
    /\ candidates = <<>>
    /\ url = None
    /\ result = None
    /\ raised = None
    /\ searched = <<>>
    /\ ranked = <<>>
    /\ outcome = None
    /\ stdout = None
    /\ cleaned = <<>>

Init ==
    /\ \E t \in Tracks : track_name = t.track_name /\ artist = t.artist
    /\ duration_ms \in DurationHints
    /\ Locals0
    /\ calls = <<>>
    /\ disk = <<>>
    /\ script = <<>>

InitQueries ==
    /\ track_name \in Titles
    /\ artist \in ArtistSpecs
    /\ duration_ms = None
    /\ Locals0
    /\ calls = <<>>
    /\ disk = <<>>
    /\ script = <<>>

\* The four query cleaning helpers alone, over the generated titles and
\* artist lists.
InitNorm ==
    /\ track_name \in Titles
    /\ artist \in ArtistSpecs
    /\ duration_ms = None
    /\ Locals0
    /\ calls = <<>>
    /\ disk = <<>>
    /\ script = <<>>

\* _pick_best alone: a call with a candidate list and a target.
InitRank ==
    /\ track_name = <<>>
    /\ artist = <<>>
    /\ duration_ms \in DurationHints
    /\ candidates \in CandidateLists
    /\ pc = "NotStarted"
    /\ queries = <<>>
    /\ idx = 0
    /\ url = None
    /\ result = None
    /\ raised = None
    /\ searched = <<>>
    /\ ranked = <<>>
    /\ outcome = None
    /\ stdout = None
    /\ cleaned = <<>>
    /\ calls = <<>>
    /\ disk = <<>>
    /\ script = <<>>

\* The invocations of search_youtube that run interleaved.
CallIds == { "a", "b" }

\* What each of them is called with, and how a run of the backend may end
\* for them.
CallTracks ==
    { [track_name |-> <<>>, artist |-> <<>>],
      [track_name |-> <<"x">>, artist |-> <<"a",";","A","u","d","i","o">>] }

CallHints == { None, Some(180000) }

CallRuns ==
    { [exc |-> None, returncode |-> 0, stdout |-> <<>>],
      [exc |-> None, returncode |-> 0,
       stdout |-> https("a") \o <<" ","2","0","0","\n">>],
      [exc |-> None, returncode |-> 0,
       stdout |-> https("d") \o <<" ","9","0","0","\n">>
                    \o https("b") \o <<" ","1","8","1","\n">>],
      [exc |-> Some("TimeoutExpired"), returncode |-> 0, stdout |-> <<>>],
      [exc |-> Some("PermissionError"), returncode |-> 0, stdout |-> <<>>] }

\* An invocation before its first statement: its arguments, its position, its
\* local variables, what it returned or raised, and the history of what it
\* sent to _yt_search, of what _yt_search gave back, and of whether it took a
\* step while another invocation was under way.
NewCall(t, d) ==
    [ track_name |-> t.track_name, artist |-> t.artist, duration_ms |-> d,
      pc |-> "NotStarted", queries |-> <<>>, idx |-> 0, candidates |-> <<>>,
      url |-> None, result |-> None, raised |-> None,
      searched |-> <<>>, responses |-> <<>>, overlapped |-> FALSE ]

InitCalls ==
    /\ track_name = <<>>
    /\ artist = <<>>
    /\ duration_ms = None
    /\ Locals0
    /\ calls \in [CallIds -> { NewCall(t, d) : t \in CallTracks, d \in CallHints }]
    /\ disk = <<>>
    /\ script = <<>>

\* if url: (None and '' are both false)
Truthy(u) == u # None /\ u[1] # <<>>

\* queries = build_search_queries(...) and the entry of the for statement.
Resolve ==
    /\ pc = "NotStarted"
    /\ queries' = build_search_queries(track_name, artist)
    /\ idx' = 1
    /\ IF queries' = <<>>
       THEN /\ pc' = "Failed"
            /\ result' = Some(<< <<>>, FailureText(0) >>)
       ELSE /\ pc' = "Trying"
            /\ result' = result
    /\ UNCHANGED << track_name, artist, duration_ms, candidates, url, raised,
                    searched, ranked, outcome, stdout, cleaned, calls, disk, script >>

\* _yt_search(query, ...) is called: subprocess.run starts.
IssueSearch ==
    /\ pc = "Trying"
    /\ searched' = Append(searched, queries[idx])
    /\ pc' = "Awaiting"
    /\ UNCHANGED << track_name, artist, duration_ms, queries, idx, candidates,
                    url, result, raised, ranked, outcome, stdout, cleaned, calls, disk, script >>

\* What the end of _yt_search does to the call, for one run of the subprocess.
YtSearchEnds(run) ==
    /\ outcome' = Some([exc |-> run.exc, returncode |-> run.returncode])
    /\ stdout' = IF run.exc = None THEN Some(run.stdout) ELSE None
    /\ LET r == _yt_search(run)
       IN
       IF r.raised = None
       THEN /\ candidates' = r.candidates
            /\ pc' = "Ranking"
            /\ raised' = raised
       ELSE /\ candidates' = candidates
            /\ pc' = "Raised"
            /\ raised' = r.raised
    /\ UNCHANGED << track_name, artist, duration_ms, queries, idx, url, result,
                    searched, ranked, cleaned, calls, disk, script >>

\* subprocess.run returns a completed process.
BackendReturns ==
    /\ pc = "Awaiting"
    /\ \E rc \in {0, 1}, out \in Stdouts :
           YtSearchEnds([exc |-> None, returncode |-> rc, stdout |-> out])

\* subprocess.run raises.
BackendRaises ==
    /\ pc = "Awaiting"
    /\ \E e \in Exceptions :
           YtSearchEnds([exc |-> Some(e), returncode |-> 0, stdout |-> <<>>])

\* Rank without the return inside the loop: a URL is kept and the loop goes on.
RankNoReturn ==
    /\ pc = "Ranking"
    /\ url' = _pick_best(candidates, duration_ms)
    /\ ranked' = Append(ranked, url')
    /\ IF idx < Len(queries)
       THEN /\ result' = IF Truthy(url')
                         THEN Some(<< url'[1], StrategyText(idx, Len(queries), queries[idx]) >>)
                         ELSE result
            /\ pc' = "Trying"
            /\ idx' = idx + 1
       ELSE IF Truthy(url') \/ result # None
       THEN /\ result' = IF Truthy(url')
                         THEN Some(<< url'[1], StrategyText(idx, Len(queries), queries[idx]) >>)
                         ELSE result
            /\ pc' = "Succeeded"
            /\ idx' = idx
       ELSE /\ result' = Some(<< <<>>, FailureText(Len(queries)) >>)
            /\ pc' = "Failed"
            /\ idx' = idx
    /\ stdout' = None
    /\ UNCHANGED << track_name, artist, duration_ms, queries, candidates, raised,
                    searched, outcome, cleaned, calls, disk, script >>

\* Rank retrying a strategy that gave no URL once before moving on.
RankRetriesOnce ==
    /\ pc = "Ranking"
    /\ url' = _pick_best(candidates, duration_ms)
    /\ ranked' = Append(ranked, url')
    /\ IF Truthy(url')
       THEN /\ result' = Some(<< url'[1], StrategyText(idx, Len(queries), queries[idx]) >>)
            /\ pc' = "Succeeded"
            /\ idx' = idx
       ELSE IF Len(searched) < 2 * idx
       THEN /\ result' = result
            /\ pc' = "Trying"
            /\ idx' = idx
       ELSE IF idx < Len(queries)
       THEN /\ result' = result
            /\ pc' = "Trying"
            /\ idx' = idx + 1
       ELSE /\ result' = Some(<< <<>>, FailureText(Len(queries)) >>)
            /\ pc' = "Failed"
            /\ idx' = idx
    /\ stdout' = None
    /\ UNCHANGED << track_name, artist, duration_ms, queries, candidates, raised,
                    searched, outcome, cleaned, calls, disk, script >>

\* Rank leaving the loop one strategy early.
RankStopsEarly ==
    /\ pc = "Ranking"
    /\ url' = _pick_best(candidates, duration_ms)
    /\ ranked' = Append(ranked, url')
    /\ IF Truthy(url')
       THEN /\ result' = Some(<< url'[1], StrategyText(idx, Len(queries), queries[idx]) >>)
            /\ pc' = "Succeeded"
            /\ idx' = idx
       ELSE IF idx < Len(queries) - 1
       THEN /\ result' = result
            /\ pc' = "Trying"
            /\ idx' = idx + 1
       ELSE /\ result' = Some(<< <<>>, FailureText(Len(queries)) >>)
            /\ pc' = "Failed"
            /\ idx' = idx
    /\ stdout' = None
    /\ UNCHANGED << track_name, artist, duration_ms, queries, candidates, raised,
                    searched, outcome, cleaned, calls, disk, script >>

\* url = _pick_best(...); if url: return ...; else the next iteration, or the
\* return after the loop.
Rank ==
    /\ pc = "Ranking"
    /\ url' = _pick_best(candidates, duration_ms)
    /\ ranked' = Append(ranked, url')
    /\ IF Truthy(url')
       THEN /\ result' = Some(<< url'[1], StrategyText(idx, Len(queries), queries[idx]) >>)
            /\ pc' = "Succeeded"
            /\ idx' = idx
       ELSE IF idx < Len(queries)
       THEN /\ result' = result
            /\ pc' = "Trying"
            /\ idx' = idx + 1
       ELSE /\ result' = Some(<< <<>>, FailureText(Len(queries)) >>)
            /\ pc' = "Failed"
            /\ idx' = idx
    /\ stdout' = None
    /\ UNCHANGED << track_name, artist, duration_ms, queries, candidates, raised,
                    searched, outcome, cleaned, calls, disk, script >>

Next == Resolve \/ IssueSearch \/ BackendReturns \/ BackendRaises \/ Rank

Spec == Init /\ [][Next]_vars

\* build_search_queries alone, over the generated titles and artist lists.
SpecQueries == InitQueries /\ [][Resolve]_vars

\* queries, idx, candidates and url as names shared by all invocations
\* (module-level variables): every invocation uses those of "a".
FrameShared(c) ==
    "a"

\* queries, idx, candidates and url are local variables of search_youtube:
\* each invocation has its own.
Frame(c) ==
    c

Local(c) == calls[Frame(c)]

Running(c) == calls[c].pc \in {"Trying", "Awaiting", "Ranking"}

\* The invocation c takes a step: has another one started and not ended?
Overlaps(c) == \E o \in CallIds \ {c} : Running(o)

SingleCallVars ==
    << track_name, artist, duration_ms, pc, queries, idx, candidates, url,
       result, raised, searched, ranked, outcome, stdout, cleaned, disk, script >>

\* Resolve for the invocation c.
CallResolve(c) ==
    /\ calls[c].pc = "NotStarted"
    /\ LET qs == build_search_queries(calls[c].track_name, calls[c].artist)
       IN  calls' = [calls EXCEPT
                        ![Frame(c)].queries = qs,
                        ![Frame(c)].idx = 1,
                        ![c].pc = IF qs = <<>> THEN "Failed" ELSE "Trying",
                        ![c].result = IF qs = <<>>
                                      THEN Some(<< <<>>, FailureText(0) >>) ELSE @,
                        ![c].overlapped = @ \/ Overlaps(c)]
    /\ UNCHANGED SingleCallVars

\* IssueSearch for the invocation c.
CallIssueSearch(c) ==
    /\ calls[c].pc = "Trying"
    /\ calls' = [calls EXCEPT
                    ![c].searched = Append(@, Local(c).queries[Local(c).idx]),
                    ![c].pc = "Awaiting",
                    ![c].overlapped = @ \/ Overlaps(c)]
    /\ UNCHANGED SingleCallVars

\* The end of _yt_search for the invocation c.
CallBackendEnds(c) ==
    /\ calls[c].pc = "Awaiting"
    /\ \E run \in CallRuns :
           LET r == _yt_search(run)
           IN  calls' = [calls EXCEPT
                            ![c].responses = Append(@, r),
                            ![Frame(c)].candidates =
                                IF r.raised = None THEN r.candidates ELSE @,
                            ![c].pc = IF r.raised = None THEN "Ranking" ELSE "Raised",
                            ![c].raised = r.raised,
                            ![c].overlapped = @ \/ Overlaps(c)]
    /\ UNCHANGED SingleCallVars

\* Rank for the invocation c.
CallRank(c) ==
    /\ calls[c].pc = "Ranking"
    /\ LET u == _pick_best(Local(c).candidates, calls[c].duration_ms)
           i == Local(c).idx
           qs == Local(c).queries
       IN  calls' = [calls EXCEPT
                        ![Frame(c)].url = u,
                        ![Frame(c)].idx =
                            IF ~Truthy(u) /\ i < Len(qs) THEN i + 1 ELSE @,
                        ![c].result =
                            IF Truthy(u)
                            THEN Some(<< u[1], StrategyText(i, Len(qs), qs[i]) >>)
                            ELSE IF i < Len(qs) THEN @
                            ELSE Some(<< <<>>, FailureText(Len(qs)) >>),
                        ![c].pc = IF Truthy(u) THEN "Succeeded"
                                  ELSE IF i < Len(qs) THEN "Trying" ELSE "Failed",
                        ![c].overlapped = @ \/ Overlaps(c)]
    /\ UNCHANGED SingleCallVars

CallsNext ==
    \E c \in CallIds :
        CallResolve(c) \/ CallIssueSearch(c) \/ CallBackendEnds(c) \/ CallRank(c)

\* Several invocations of search_youtube, their steps interleaved in any
\* order.
SpecCalls == InitCalls /\ [][CallsNext]_vars

\* One application of each helper to its argument.
NormalizerRound(r) ==
    [ primary |-> _primary_artist(r.primary),
      all_artists |-> _all_artists_spaced(r.all_artists),
      clean_feat |-> _strip_featured(r.clean_feat),
      clean_all |-> _strip_all_parens(r.clean_all) ]

\* The helpers are applied to the artist and the title, then once more, each
\* to the value it returned.
ApplyNormalizers ==
    /\ pc = "NotStarted"
    /\ Len(cleaned) < 2
    /\ cleaned' = Append(cleaned,
                      NormalizerRound(IF cleaned = <<>>
                                      THEN [ primary |-> artist,
                                             all_artists |-> artist,
                                             clean_feat |-> track_name,
                                             clean_all |-> track_name ]
                                      ELSE cleaned[Len(cleaned)]))
    /\ UNCHANGED << track_name, artist, duration_ms, pc, queries, idx, candidates,
                    url, result, raised, searched, ranked, outcome, stdout, calls, disk, script >>

SpecNorm == InitNorm /\ [][ApplyNormalizers]_vars

\* _pick_best(candidates, target_ms) called on its own.
PickBestAlone ==
    /\ pc = "NotStarted"
    /\ url' = _pick_best(candidates, duration_ms)
    /\ ranked' = Append(ranked, url')
    /\ pc' = "Ranked"
    /\ UNCHANGED << track_name, artist, duration_ms, queries, idx, candidates,
                    result, raised, searched, outcome, stdout, cleaned, calls, disk, script >>

SpecRank == InitRank /\ [][PickBestAlone]_vars

\* ------------------------------------------------- the scripts: shared parts

\* The variables of the search_youtube models, which the scripts leave alone.
SearchVars ==
    << track_name, artist, duration_ms, pc, queries, idx, candidates, url,
       result, raised, searched, ranked, outcome, stdout, cleaned, calls >>

SearchVars0 ==
    /\ track_name = <<>>
    /\ artist = <<>>
    /\ duration_ms = None
    /\ Locals0
    /\ calls = <<>>

InvalidChars == {"<", ">", ":", "\"", "/", "\\", "|", "?", "*"}

\* while '__' in name: name = name.replace('__', '_')
RECURSIVE SqueezeUnderscores(_)
SqueezeUnderscores(s) ==
    IF Len(s) < 2 THEN s
    ELSE IF s[1] = "_" /\ s[2] = "_" THEN SqueezeUnderscores(Tail(s))
    ELSE << s[1] >> \o SqueezeUnderscores(Tail(s))

\* sanitize_filename (youtube-search.py and retry_failures.py have the same).
sanitize_filename(name) ==
    LET replaced == [i \in 1..Len(name) |->
                        IF name[i] \in InvalidChars \cup {" ", ";"} THEN "_"
                        ELSE name[i]]
        squeezed == SqueezeUnderscores(replaced)
        keep == {i \in 1..Len(squeezed) : squeezed[i] # "_"}
    IN  IF keep = {} THEN <<>> ELSE SubSeq(squeezed, MinOf(keep), MaxOf(keep))

\* f"songs/{sanitize_filename(artist)}-{sanitize_filename(track_name)}.m4a"
SongsPath(artist_, track_name_) ==
    <<"s","o","n","g","s","/">> \o sanitize_filename(artist_) \o <<"-">>
        \o sanitize_filename(track_name_) \o <<".","m","4","a">>

\* The URLs that a search or a failure entry may hold.
VideoUrls == { "https://www.youtube.com/watch?v=a", "https://www.youtube.com/watch?v=b" }

\* --------------------------------------------------- youtube-search.py main

\* The rows of the CSV as parse_csv returns them.
Songs ==
    { [track_name |-> <<"x">>, artist |-> <<"a">>, album |-> "al",
       release_date |-> "2001", duration_ms |-> "180000"],
      [track_name |-> <<"y"," ","?">>, artist |-> <<"b",";","c">>, album |-> "",
       release_date |-> "", duration_ms |-> ""] }

SongLists == UNION { [1..n -> Songs] : n \in 0..MaxSongs }

\* What download_song may return for a song: no URL found or an exception
\* caught (no url), a download that failed (url, no path), or success.
DownloadSongResults(song) ==
    { [success |-> FALSE, url |-> "", local_path |-> <<>>,
       error_reason |-> "No results after 3 search strategies"],
      [success |-> FALSE, url |-> "", local_path |-> <<>>,
       error_reason |-> "Download timed out"] }
    \cup { [success |-> FALSE, url |-> u, local_path |-> <<>>,
            error_reason |-> "Unknown error"] : u \in VideoUrls }
    \cup { [success |-> TRUE, url |-> u,
            local_path |-> SongsPath(song.artist, song.track_name),
            error_reason |-> ""] : u \in VideoUrls }

\* What download_thumbnail may return: '' or the path of the thumbnail.
ThumbnailResults == { "", "thumbnails/a.jpg" }

\* An output directory is new, or is the one of a run started in the same
\* minute (mkdir with exist_ok=True), whose files are still there.
StaleFiles ==
    { None, Some(<< [track_name |-> <<"o","l","d">>, artist |-> <<"o">>] >>) }

InitMain ==
    /\ SearchVars0
    /\ disk \in [output_json : StaleFiles, failures_json : StaleFiles]
    /\ script \in { [pc |-> "Loop", songs |-> l, i |-> 0, successful |-> <<>>,
                     failures |-> <<>>, verdicts |-> <<>>] : l \in SongLists }

\* json.dump(failures, f) on failures.json, before the failure is appended.
WriteFailuresBeforeAppend(d, failures) ==
    [d EXCEPT !.failures_json = Some(SubSeq(failures, 1, Len(failures) - 1))]

\* with open(failures_json_path, "w") as f: json.dump(failures, f, ...)
WriteFailures(d, failures) ==
    [d EXCEPT !.failures_json = Some(failures)]

\* with open(output_json_path, "w") as f: json.dump(successful, f, ...)
WriteOutput(d, successful) ==
    [d EXCEPT !.output_json = Some(successful)]

\* One iteration of the loop over the songs in which download_song succeeds.
\* thumbnail_path "" stands for an entry without that key.
MainSongSucceeds ==
    /\ script.pc = "Loop"
    /\ script.i < Len(script.songs)
    /\ LET song == script.songs[script.i + 1]
       IN  \E r \in DownloadSongResults(song), thumb_path \in ThumbnailResults :
               /\ r.success
               /\ LET entry == [track_name |-> song.track_name, artist |-> song.artist,
                                album |-> song.album,
                                release_date |-> song.release_date,
                                duration_ms |-> song.duration_ms,
                                url |-> r.url, local_path |-> r.local_path,
                                thumbnail_path |-> thumb_path]
                      successful == Append(script.successful, entry)
                  IN  /\ script' = [script EXCEPT !.successful = successful,
                                                  !.i = @ + 1,
                                                  !.verdicts = Append(@, TRUE)]
                      /\ disk' = WriteOutput(disk, successful)
    /\ UNCHANGED SearchVars

\* One iteration in which download_song fails.
MainSongFails ==
    /\ script.pc = "Loop"
    /\ script.i < Len(script.songs)
    /\ LET song == script.songs[script.i + 1]
       IN  \E r \in DownloadSongResults(song) :
               /\ ~r.success
               /\ LET entry == [track_name |-> song.track_name, artist |-> song.artist,
                                album |-> song.album,
                                duration_ms |-> song.duration_ms,
                                url |-> r.url, error |-> r.error_reason]
                      failures == Append(script.failures, entry)
                  IN  /\ script' = [script EXCEPT !.failures = failures,
                                                  !.i = @ + 1,
                                                  !.verdicts = Append(@, FALSE)]
                      /\ disk' = WriteFailures(disk, failures)
    /\ UNCHANGED SearchVars

\* The loop is over: the summary is printed.
MainEnds ==
    /\ script.pc = "Loop"
    /\ script.i = Len(script.songs)
    /\ script' = [script EXCEPT !.pc = "Done"]
    /\ UNCHANGED << disk, SearchVars >>

SpecMain == InitMain /\ [][MainSongSucceeds \/ MainSongFails \/ MainEnds]_vars

\* ------------------------------------------- retry_failures.process_failures

\* The entries a failures.json may hold. duration_ms is None where the entry
\* has no such key (failure.get('duration_ms') is then None).
FailureEntries ==
    { [track_name |-> t.track_name, artist |-> t.artist, url |-> u,
       error |-> "Unknown error", duration_ms |-> d] :
        t \in { [track_name |-> <<"x">>, artist |-> <<"a">>],
                [track_name |-> <<"y"," ","?">>, artist |-> <<"b",";","c">>] },
        u \in { "", "https://www.youtube.com/watch?v=a" },
        d \in { None, Some("180000") } }

\* The tracks an output.json may hold: none, one with the URL of a failure,
\* one with the name of a failure in another case and no URL.
TrackLists ==
    { <<>>,
      << [track_name |-> <<"x">>, artist |-> <<"a">>,
          url |-> "https://www.youtube.com/watch?v=a", local_path |-> <<>>] >>,
      << [track_name |-> <<"X">>, artist |-> <<"A">>, url |-> "",
          local_path |-> <<>>] >> }

InitRetry ==
    /\ SearchVars0
    /\ disk \in [ failures_json : {None} \cup
                      { Some(l) : l \in UNION { [1..n -> FailureEntries] :
                                                  n \in 0..MaxSongs } },
                  output_json : {None} \cup { Some(l) : l \in TrackLists } ]
    /\ script = [pc |-> "Start", failures |-> <<>>, tracks |-> <<>>, i |-> 0,
                 remaining_failures |-> <<>>, success_count |-> 0,
                 verdicts |-> <<>>]

\* process_failures up to the loop: the checks of the two files and the loads.
RetryLoads ==
    /\ script.pc = "Start"
    /\ script' =
         IF disk.failures_json = None THEN [script EXCEPT !.pc = "Exit1"]
         ELSE LET failures == disk.failures_json[1]
              IN  IF failures = <<>>
                  THEN [script EXCEPT !.pc = "NoFailures"]
                  ELSE IF disk.output_json = None
                  THEN [script EXCEPT !.pc = "Exit1", !.failures = failures]
                  ELSE [script EXCEPT !.pc = "Loop", !.failures = failures,
                                      !.tracks = disk.output_json[1]]
    /\ UNCHANGED << disk, SearchVars >>

\* What search_youtube(track_name, artist, duration_ms=dur) may return.
SearchResults ==
    { [url |-> "", strategy |-> "No results after 3 search strategies"] }
    \cup { [url |-> u, strategy |-> "strategy 1/3"] : u \in VideoUrls }

\* What download_audio may return: (success, error).
DownloadAudioResults ==
    { [success |-> TRUE, error |-> ""],
      [success |-> FALSE, error |-> "Download timed out (5 minutes)"] }

\* The entry appended to remaining_failures: four keys, no duration_ms.
RemainingEntry(failure, url_, error_) ==
    [track_name |-> failure.track_name, artist |-> failure.artist,
     url |-> url_, error |-> error_, duration_ms |-> None]

\* The update of tracks after a download: the first track with the URL, else
\* the first track with the name and artist whatever the case, else a new one.
UpdateTracks(tracks, failure, url_, relative_path) ==
    LET byUrl == {k \in 1..Len(tracks) : tracks[k].url = url_}
        byName == {k \in 1..Len(tracks) :
                      /\ lower(tracks[k].track_name) = lower(failure.track_name)
                      /\ lower(tracks[k].artist) = lower(failure.artist)}
    IN  IF byUrl # {}
        THEN [tracks EXCEPT ![MinOf(byUrl)].local_path = relative_path]
        ELSE IF byName # {}
        THEN [tracks EXCEPT ![MinOf(byName)].url = url_,
                            ![MinOf(byName)].local_path = relative_path]
        ELSE Append(tracks, [track_name |-> failure.track_name,
                             artist |-> failure.artist, url |-> url_,
                             local_path |-> relative_path])

\* The failure has no URL and the fresh search finds none.
RetrySearchFails ==
    /\ script.pc = "Loop"
    /\ script.i < Len(script.failures)
    /\ LET failure == script.failures[script.i + 1]
       IN  /\ failure.url = ""
           /\ \E s \in SearchResults :
                /\ s.url = ""
                /\ script' = [script EXCEPT
                     !.remaining_failures =
                         Append(@, RemainingEntry(failure, "", s.strategy)),
                     !.i = @ + 1,
                     !.verdicts = Append(@, FALSE)]
    /\ UNCHANGED << disk, SearchVars >>

\* The failure has no URL and search_youtube raises: nothing catches it.
RetrySearchRaises ==
    /\ script.pc = "Loop"
    /\ script.i < Len(script.failures)
    /\ script.failures[script.i + 1].url = ""
    /\ script' = [script EXCEPT !.pc = "Raised"]
    /\ UNCHANGED << disk, SearchVars >>

\* The URLs the download of a failure may use: its own, or one just found.
UrlsFor(failure) ==
    IF failure.url # "" THEN { failure.url }
    ELSE { s.url : s \in { r \in SearchResults : r.url # "" } }

\* The download succeeds: tracks is updated and output.json rewritten.
RetryDownloadSucceeds ==
    /\ script.pc = "Loop"
    /\ script.i < Len(script.failures)
    /\ LET failure == script.failures[script.i + 1]
       IN  \E u \in UrlsFor(failure), r \in DownloadAudioResults :
             /\ r.success
             /\ LET tracks == UpdateTracks(script.tracks, failure, u,
                                  SongsPath(failure.artist, failure.track_name))
                IN  /\ script' = [script EXCEPT
                          !.success_count = @ + 1,
                          !.tracks = tracks,
                          !.i = @ + 1,
                          !.verdicts = Append(@, TRUE)]
                    /\ disk' = [disk EXCEPT !.output_json = Some(tracks)]
    /\ UNCHANGED SearchVars

\* The download fails: the failure goes to remaining_failures.
RetryDownloadFails ==
    /\ script.pc = "Loop"
    /\ script.i < Len(script.failures)
    /\ LET failure == script.failures[script.i + 1]
       IN  \E u \in UrlsFor(failure), r \in DownloadAudioResults :
             /\ ~r.success
             /\ script' = [script EXCEPT
                  !.remaining_failures =
                      Append(@, RemainingEntry(failure, u, r.error)),
                  !.i = @ + 1,
                  !.verdicts = Append(@, FALSE)]
    /\ UNCHANGED << disk, SearchVars >>

\* failures.json is written whatever remaining_failures holds.
UpdateFailuresAlwaysWrites(d, remaining_failures) ==
    [d EXCEPT !.failures_json = Some(remaining_failures)]

\* if remaining_failures: json.dump(...) else: failures_path.unlink()
UpdateFailures(d, remaining_failures) ==
    IF remaining_failures # <<>>
    THEN [d EXCEPT !.failures_json = Some(remaining_failures)]
    ELSE [d EXCEPT !.failures_json = None]

\* After the loop: failures.json is updated or removed, the summary printed.
RetryEnds ==
    /\ script.pc = "Loop"
    /\ script.i = Len(script.failures)
    /\ disk' = UpdateFailures(disk, script.remaining_failures)
    /\ script' = [script EXCEPT !.pc = "Done"]
    /\ UNCHANGED SearchVars

RetryNext ==
    \/ RetryLoads
    \/ RetrySearchFails
    \/ RetrySearchRaises
    \/ RetryDownloadSucceeds
    \/ RetryDownloadFails
    \/ RetryEnds

SpecRetry == InitRetry /\ [][RetryNext]_vars

\* --------------------------------------------- migrate_songs.migrate_songs

\* A path is the sequence of its components (pathlib's parts), relative to
\* the directory of the script, from which the script is run.
Name(path) ==
    path[Len(path)]

Parent(path) ==
    SubSeq(path, 1, Len(path) - 1)

\* local_path.startswith('songs/')
StartsWithSongs(path) ==
    Len(path) >= 2 /\ path[1] = "songs"

SongsDir == << "songs" >>

\* f"songs/{filename}"
SongsRelative(filename) ==
    << "songs", filename >>

PlaylistP == << "output", "p", "output.json" >>
PlaylistQ == << "output", "q", "output.json" >>

\* output_dir.rglob('output.json'), in the order it lists them.
JsonOrder == << PlaylistP, PlaylistQ >>

DownloadsPA == << "output", "p", "downloads", "a.m4a" >>
DownloadsPB == << "output", "p", "downloads", "b.m4a" >>
DownloadsQA == << "output", "q", "downloads", "a.m4a" >>
BesidePA == << "output", "p", "a.m4a" >>
SongsA == << "songs", "a.m4a" >>

\* The song files that may be on disk before the run.
SongFiles == { DownloadsPA, DownloadsPB, DownloadsQA, BesidePA, SongsA }

\* The tracks of the output.json of playlist p; local_path <<>> stands for a
\* track without one.
TracksP ==
    { [track_name |-> "a", local_path |-> DownloadsPA],
      [track_name |-> "b", local_path |-> DownloadsPB],
      [track_name |-> "a", local_path |-> SongsA],
      [track_name |-> "c", local_path |-> <<>>] }

TrackListsP == UNION { [1..n -> TracksP] : n \in 0..MaxSongs }

\* The output.json files under output/: that of p, and maybe that of q.
JsonFiles ==
    { [j \in {PlaylistP} |-> l] : l \in TrackListsP }
    \cup { [j \in {PlaylistP, PlaylistQ} |-> IF j = PlaylistP THEN l ELSE m] :
             l \in TrackListsP,
             m \in { <<>>, << [track_name |-> "a", local_path |-> DownloadsQA] >> } }
    \cup { << >> }

\* The disks before the run: each file lies in a directory, and songs/ may
\* be there or not.
Disks ==
    { [files |-> f, dirs |-> { Parent(p) : p \in f } \cup d, json |-> j] :
        f \in SUBSET SongFiles, d \in { {}, {SongsDir} }, j \in JsonFiles }

\* The (json_path, track) pairs of the tracks that have a local_path, in the
\* order build_file_map meets them.
RECURSIVE TrackEntries(_, _)
TrackEntries(json, order) ==
    IF order = <<>> THEN <<>>
    ELSE LET json_path == Head(order)
             tracks == IF json_path \in DOMAIN json THEN json[json_path] ELSE <<>>
             all == [n \in 1..Len(tracks) |->
                        [json_path |-> json_path, n |-> n,
                         local_path |-> tracks[n].local_path]]
         IN  SelectSeq(all, LAMBDA e : e.local_path # <<>>)
                 \o TrackEntries(json, Tail(order))

\* The keys of file_map, in insertion order.
RECURSIVE Filenames(_)
Filenames(entries) ==
    IF entries = <<>> THEN <<>>
    ELSE LET filename == Name(Head(entries).local_path)
         IN  << filename >>
                 \o Filenames(SelectSeq(Tail(entries),
                        LAMBDA e : Name(e.local_path) # filename))

build_file_map(json) ==
    LET entries == TrackEntries(json, JsonOrder)
        names == Filenames(entries)
    IN  [k \in 1..Len(names) |->
            [filename |-> names[k],
             track_entries |-> SelectSeq(entries,
                 LAMBDA e : Name(e.local_path) = names[k])]]

InitMigrate ==
    /\ SearchVars0
    /\ disk \in Disks
    /\ script \in { [pc |-> "Start", dry_run |-> d, cleanup |-> c,
                     before |-> disk, file_map |-> <<>>, k |-> 0,
                     moved_count |-> 0, duplicate_count |-> 0,
                     error_count |-> 0, not_found |-> {},
                     updated_json_files |-> {}, downloads_dirs |-> {}] :
                     d \in BOOLEAN, c \in BOOLEAN }

\* songs_dir.mkdir(exist_ok=True), whatever dry_run is.
MakeSongsDir(d) ==
    [d EXCEPT !.dirs = @ \cup {SongsDir}]

\* migrate_songs up to the loop: songs/ is made, the output.json files are
\* found and the file map built; it returns if there is nothing to migrate.
MigrateStarts ==
    /\ script.pc = "Start"
    /\ disk' = MakeSongsDir(disk)
    /\ LET file_map == build_file_map(disk.json)
       IN  script' = IF DOMAIN disk.json = {} \/ file_map = <<>>
                     THEN [script EXCEPT !.pc = "Done"]
                     ELSE [script EXCEPT !.pc = "Loop", !.file_map = file_map]
    /\ UNCHANGED SearchVars

\* The candidates for the source of an entry: its local_path, then its file
\* name beside the output.json.
Candidates(e) ==
    << e.local_path, Parent(e.json_path) \o << Name(e.local_path) >> >>

\* The first candidate of the first entry that exists, or None.
RECURSIVE FindSource(_, _)
FindSource(track_entries, files) ==
    IF track_entries = <<>> THEN None
    ELSE LET c == Candidates(Head(track_entries))
         IN  IF c[1] \in files THEN Some(c[1])
             ELSE IF c[2] \in files THEN Some(c[2])
             ELSE FindSource(Tail(track_entries), files)

\* The entry being processed and the source found for it.
Current == script.file_map[script.k + 1]

\* No entry of the file name has a file: an error is counted.
MigrateSourceMissing ==
    /\ script.pc = "Loop"
    /\ script.k < Len(script.file_map)
    /\ FindSource(Current.track_entries, disk.files) = None
    /\ script' = [script EXCEPT !.error_count = @ + 1, !.k = @ + 1,
                                !.not_found = @ \cup {Current.filename}]
    /\ UNCHANGED << disk, SearchVars >>

\* shutil.move raises: an error is counted and the entries are left alone.
MigrateMoveRaises ==
    /\ script.pc = "Loop"
    /\ script.k < Len(script.file_map)
    /\ FindSource(Current.track_entries, disk.files) # None
    /\ ~script.dry_run
    /\ SongsRelative(Current.filename) \notin disk.files
    /\ script' = [script EXCEPT !.error_count = @ + 1, !.k = @ + 1]
    /\ UNCHANGED << disk, SearchVars >>

\* The old paths of the entries that are deleted as duplicates of the source.
Duplicates(track_entries, files, source_path) ==
    { e.local_path : e \in { track_entries[n] : n \in 1..Len(track_entries) } }
        \cap (files \ {source_path})

\* The parents named downloads of the old paths of the entries.
DownloadsDirsOf(track_entries) ==
    { Parent(e.local_path) : e \in
        { x \in { track_entries[n] : n \in 1..Len(track_entries) } :
            Len(x.local_path) >= 2
            /\ x.local_path[Len(x.local_path) - 1] = "downloads" } }

\* The file is moved to songs/ unless one of that name is there (a dry run
\* only prints), and the entries of the file name are updated: duplicates of
\* the source are deleted unless it is a dry run (an unlink that raises is
\* passed over).
MigrateFile ==
    /\ script.pc = "Loop"
    /\ script.k < Len(script.file_map)
    /\ LET found == FindSource(Current.track_entries, disk.files)
           dest_path == SongsRelative(Current.filename)
       IN  /\ found # None
           /\ LET source_path == found[1]
                  moves == dest_path \notin disk.files
                  moved == IF script.dry_run \/ ~moves THEN disk.files
                           ELSE (disk.files \ {source_path}) \cup {dest_path}
                  dups == IF script.dry_run THEN {}
                          ELSE Duplicates(Current.track_entries, moved, source_path)
              IN  \E unlinked \in SUBSET dups :
                  /\ disk' = [disk EXCEPT !.files = moved \ unlinked]
                  /\ script' = [script EXCEPT
                       !.moved_count = IF moves THEN @ + 1 ELSE @,
                       !.duplicate_count =
                           (IF moves THEN @ ELSE @ + 1) + Cardinality(unlinked),
                       !.k = @ + 1,
                       !.downloads_dirs =
                           @ \cup DownloadsDirsOf(Current.track_entries),
                       !.updated_json_files = @ \cup
                           { Current.track_entries[n].json_path :
                               n \in 1..Len(Current.track_entries) }]
    /\ UNCHANGED SearchVars

\* The tracks of a reloaded output.json with the relative paths re-applied:
\* every track whose local_path does not start with songs/ gets one.
Reapply(tracks) ==
    [n \in 1..Len(tracks) |->
        IF tracks[n].local_path # <<>> /\ ~StartsWithSongs(tracks[n].local_path)
        THEN [tracks[n] EXCEPT !.local_path = SongsRelative(Name(@))]
        ELSE tracks[n]]

\* After the loop the updated output.json files are rewritten, unless it is
\* a dry run.
MigrateSaves ==
    /\ script.pc = "Loop"
    /\ script.k = Len(script.file_map)
    /\ disk' = IF script.dry_run THEN disk
               ELSE [disk EXCEPT !.json =
                       [j \in DOMAIN disk.json |->
                           IF j \in script.updated_json_files
                           THEN Reapply(disk.json[j])
                           ELSE disk.json[j]]]
    /\ script' = [script EXCEPT !.pc = "Cleanup"]
    /\ UNCHANGED SearchVars

\* The empty downloads directories are removed when --cleanup is given and
\* it is not a dry run (an rmdir that raises is passed over); then the
\* summary is printed.
MigrateCleansUp ==
    /\ script.pc = "Cleanup"
    /\ LET empty == { d \in script.downloads_dirs \cap disk.dirs :
                        ~\E f \in disk.files : Parent(f) = d }
       IN  \E removed \in SUBSET empty :
             disk' = IF script.cleanup /\ ~script.dry_run
                     THEN [disk EXCEPT !.dirs = @ \ removed]
                     ELSE disk
    /\ script' = [script EXCEPT !.pc = "Done"]
    /\ UNCHANGED SearchVars

MigrateNext ==
    \/ MigrateStarts
    \/ MigrateSourceMissing
    \/ MigrateMoveRaises
    \/ MigrateFile
    \/ MigrateSaves
    \/ MigrateCleansUp

SpecMigrate == InitMigrate /\ [][MigrateNext]_vars

\* ------------------------------------------------- fetch_thumbnails.py main

\* The number of runs of the script over the same tracks.json.
MaxRuns == 2

\* len(data) < 1000 rejects a payload; st_size > 1000 recognises a file.
PlaceholderLimit == 1000

\* if downloaded > 0 and downloaded % 50 == 0: save progress
SaveEvery == 50

\* What a request for one resolution may give: an error (None) or a payload
\* of some length: a placeholder, the smallest payloads that are kept.
PayloadSizes == { 120, PlaceholderLimit, PlaceholderLimit + 1 }
Responses == { None } \cup { Some(n) : n \in PayloadSizes }

\* The length of the payload download_thumbnail writes, or None if it
\* returns False: the first payload that is not shorter than the limit.
RECURSIVE download_thumbnail(_)
download_thumbnail(responses) ==
    IF responses = <<>> THEN None
    ELSE IF Head(responses) # None /\ ~(Head(responses)[1] < PlaceholderLimit)
    THEN Head(responses)
    ELSE download_thumbnail(Tail(responses))

\* thumbnail_path.exists() and thumbnail_path.stat().st_size > 1000, on the
\* length of the file (None: no such file).
AlreadyDownloaded(file) ==
    file # None /\ file[1] > PlaceholderLimit

SourceUrls == { "", "https://www.youtube.com/watch?v=a", "https://youtu.be/b" }

\* extract_video_id on the source URLs of the model.
extract_video_id(source_url) ==
    CASE source_url = "https://www.youtube.com/watch?v=a" -> Some("a")
      [] source_url = "https://youtu.be/b" -> Some("b")
      [] OTHER -> None

\* f"{video_id}.jpg"
ThumbnailFilename(video_id) ==
    video_id \o ".jpg"

\* The tracks of tracks.json; thumbnailPath "" stands for a track without
\* that key.
ThumbTracks ==
    { [trackName |-> "t", sourceUrl |-> u, thumbnailPath |-> ""] :
        u \in SourceUrls }

ThumbTrackLists == UNION { [1..n -> ThumbTracks] : n \in 0..MaxSongs }

\* The locals of main at the start of a run.
ThumbsRun(run, dry) ==
    [pc |-> "Start", run |-> run, dry_run |-> dry, tracks |-> <<>>, i |-> 0,
     downloaded |-> 0, skipped |-> 0, failed |-> 0, no_url |-> 0,
     already_has |-> 0, requested |-> {}, written |-> {}, saved |-> {}]

InitThumbs ==
    /\ SearchVars0
    /\ disk \in [ tracks_json : {None} \cup { Some(l) : l \in ThumbTrackLists },
                  thumbnails : [{"a", "b"} -> {None, Some(PlaceholderLimit + 1)}] ]
    /\ script \in { ThumbsRun(1, d) : d \in BOOLEAN }

\* main up to the loop: tracks.json is checked and loaded (the thumbnails
\* directory, made unless it is a dry run, is not part of the model).
ThumbsStarts ==
    /\ script.pc = "Start"
    /\ script' = IF disk.tracks_json = None THEN [script EXCEPT !.pc = "Exit1"]
                 ELSE [script EXCEPT !.pc = "Loop", !.tracks = disk.tracks_json[1]]
    /\ UNCHANGED << disk, SearchVars >>

ThumbTrack == script.tracks[script.i + 1]

\* The track has no YouTube URL.
ThumbsNoUrl ==
    /\ script.pc = "Loop"
    /\ script.i < Len(script.tracks)
    /\ extract_video_id(ThumbTrack.sourceUrl) = None
    /\ script' = [script EXCEPT !.no_url = @ + 1, !.i = @ + 1]
    /\ UNCHANGED << disk, SearchVars >>

\* The thumbnail is already there: the field of the track is set.
ThumbsAlreadyHas ==
    /\ script.pc = "Loop"
    /\ script.i < Len(script.tracks)
    /\ LET id == extract_video_id(ThumbTrack.sourceUrl)
       IN  /\ id # None
           /\ AlreadyDownloaded(disk.thumbnails[id[1]])
           /\ script' = [script EXCEPT
                !.tracks[script.i + 1].thumbnailPath = ThumbnailFilename(id[1]),
                !.already_has = @ + 1,
                !.i = @ + 1]
    /\ UNCHANGED << disk, SearchVars >>

\* A dry run says what it would download.
ThumbsWouldDownload ==
    /\ script.pc = "Loop"
    /\ script.i < Len(script.tracks)
    /\ LET id == extract_video_id(ThumbTrack.sourceUrl)
       IN  /\ id # None
           /\ ~AlreadyDownloaded(disk.thumbnails[id[1]])
    /\ script.dry_run
    /\ script' = [script EXCEPT !.skipped = @ + 1, !.i = @ + 1]
    /\ UNCHANGED << disk, SearchVars >>

\* The thumbnail is downloaded, with an answer to each of the requests for
\* maxresdefault and hqdefault: on success the file is written and the field
\* of the track set; every 50 downloads tracks.json is saved.
ThumbsDownloads ==
    /\ script.pc = "Loop"
    /\ script.i < Len(script.tracks)
    /\ ~script.dry_run
    /\ LET id == extract_video_id(ThumbTrack.sourceUrl)
       IN  /\ id # None
           /\ ~AlreadyDownloaded(disk.thumbnails[id[1]])
           /\ \E responses \in [1..2 -> Responses] :
                LET written == download_thumbnail(responses)
                    success == written # None
                    tracks == IF success
                              THEN [script.tracks EXCEPT ![script.i + 1].thumbnailPath
                                        = ThumbnailFilename(id[1])]
                              ELSE script.tracks
                    downloaded == IF success THEN script.downloaded + 1
                                  ELSE script.downloaded
                IN  /\ script' = [script EXCEPT
                         !.tracks = tracks,
                         !.downloaded = downloaded,
                         !.failed = IF success THEN @ ELSE @ + 1,
                         !.requested = @ \cup {id[1]},
                         !.written = IF success THEN @ \cup {id[1]} ELSE @,
                         !.i = @ + 1]
                    /\ disk' = [disk EXCEPT
                         !.thumbnails[id[1]] = IF success THEN written ELSE @,
                         !.tracks_json =
                             IF downloaded > 0 /\ downloaded % SaveEvery = 0
                             THEN Some(tracks) ELSE @]
    /\ UNCHANGED SearchVars

\* After the loop: the final save, unless it is a dry run, and the summary.
ThumbsEnds ==
    /\ script.pc = "Loop"
    /\ script.i = Len(script.tracks)
    /\ disk' = IF script.dry_run THEN disk
               ELSE [disk EXCEPT !.tracks_json = Some(script.tracks)]
    /\ script' = [script EXCEPT !.pc = "Done"]
    /\ UNCHANGED SearchVars

\* The script is run again over the same tracks.json and thumbnails.
\* requested and written hold the videos for which this run has called
\* download_thumbnail and those whose file it has written; saved, those whose
\* file a run before this one has written.
ThumbsRunsAgain ==
    /\ script.pc = "Done"
    /\ script.run < MaxRuns
    /\ \E d \in BOOLEAN :
         script' = [ThumbsRun(script.run + 1, d) EXCEPT
                      !.saved = script.saved \cup script.written]
    /\ UNCHANGED << disk, SearchVars >>

ThumbsNext ==
    \/ ThumbsStarts
    \/ ThumbsNoUrl
    \/ ThumbsAlreadyHas
    \/ ThumbsWouldDownload
    \/ ThumbsDownloads
    \/ ThumbsEnds
    \/ ThumbsRunsAgain

SpecThumbs == InitThumbs /\ [][ThumbsNext]_vars

\* ----------------------------------------------------------------- claims

\* The call has ranked the candidates of its latest search: url is the value
\* of _pick_best on candidates.
RankedNow == Len(ranked) > 0 /\ Len(ranked) = Len(searched)

NumeralChar == <<"1","2","3","4","5","6","7","8","9">>

\* "No results after <n> search strategies", for n in 1..9.
NoResultsAfter(n) ==
    <<"N","o"," ","r","e","s","u","l","t","s"," ","a","f","t","e","r"," ">>
        \o << NumeralChar[n] >>
        \o <<" ","s","e","a","r","c","h"," ","s","t","r","a","t","e","g","i","e","s">>

\* "strategy <n>/<total>: "<query>"", for n and total in 1..9.
StrategyDescription(n, total, query) ==
    <<"s","t","r","a","t","e","g","y"," ">> \o << NumeralChar[n] >> \o <<"/">>
        \o << NumeralChar[total] >> \o <<":"," ","\"">> \o query \o <<"\"">>

\* C1: once _pick_best has returned a URL for strategy i, no strategy after i
\* is sent to the backend, and the call returns that URL: the URL of the
\* lowest-indexed strategy whose ranking produced one.
C1_FirstSuccessWins ==
    /\ \A i \in 1..Len(ranked) :
           ranked[i] # None =>
               /\ i = Len(ranked)
               /\ Len(searched) = i
               /\ pc = "Succeeded"
               /\ result # None
               /\ result[1][1] = ranked[i][1]
    /\ pc = "Succeeded" => Len(ranked) > 0 /\ ranked[Len(ranked)] # None

\* A success at the second of six strategies: four strategies are never sent.
C1_Witness == pc = "Succeeded" /\ Len(ranked) = 2 /\ Len(searched) = 2 /\ Len(queries) = 6

\* C2: the backend is called at most once per strategy, in the order of the
\* strategy list, the call for strategy i + 1 only after the call for strategy
\* i has returned and been ranked, and no query is sent a second time.
C2_OneSearchPerStrategy ==
    /\ Len(searched) <= Len(queries)
    /\ \A k \in 1..Len(searched) : searched[k] = queries[k]
    /\ \A j, k \in 1..Len(searched) : j # k => searched[j] # searched[k]
    /\ Len(ranked) <= Len(searched)
    /\ Len(searched) <= Len(ranked) + 1
    /\ pc = "Trying" => Len(ranked) = Len(searched)

\* Six strategies, each searched once and each without a URL, the last of
\* them because its backend call timed out.
C2_Witness ==
    /\ pc = "Failed"
    /\ Len(searched) = 6
    /\ \A i \in 1..Len(ranked) : ranked[i] = None
    /\ outcome = Some([exc |-> Some("TimeoutExpired"), returncode |-> 0])

\* C3: a Failure is returned only after every strategy of the list has been
\* searched and ranked without a URL, and its reason names the number of
\* strategies searched in the call (6 when the six queries are distinct).
C3_FailureAfterAllStrategies ==
    (pc = "Failed" \/ (result # None /\ result[1][1] = <<>>)) =>
        /\ pc = "Failed"
        /\ Len(searched) = Len(queries)
        /\ Len(ranked) = Len(queries)
        /\ \A i \in 1..Len(ranked) : ranked[i] = None
        /\ result = Some(<< <<>>, NoResultsAfter(Len(searched)) >>)

\* The failure after six distinct strategies: the reason names 6.
C3_Witness ==
    /\ pc = "Failed"
    /\ Len(queries) = 6
    /\ result[1][2] = NoResultsAfter(6)

SongA == <<"S","o","n","g"," ","A">>

\* C4: a Success carries the 1-based index and the query text of the strategy
\* whose backend response produced the returned URL; for "Song (feat. X)" by
\* "A;B" with nothing from strategies 1 and 2, that is index 3 and "Song A".
C4_SuccessNamesItsStrategy ==
    pc = "Succeeded" =>
        /\ result # None
        /\ \E i \in 1..Len(candidates) : candidates[i].url = result[1][1]
        /\ result[1][2] =
               StrategyDescription(Len(searched), Len(queries), searched[Len(searched)])
        /\ (track_name = SongFeatX /\ artist = <<"A",";","B">> /\ Len(searched) = 3) =>
               result[1][2] = StrategyDescription(3, 5, SongA)

\* "Song (feat. X)" by "A;B" resolved by its third strategy.
C4_Witness ==
    /\ pc = "Succeeded"
    /\ track_name = SongFeatX
    /\ artist = <<"A",";","B">>
    /\ Len(searched) = 3
    /\ ranked[1] = None /\ ranked[2] = None

\* The latest backend call failed: an exception or a non-zero return code.
BackendFailed == outcome[1].exc # None \/ outcome[1].returncode # 0

\* C5: every failure of a strategy's backend call becomes an empty candidate
\* list for that strategy, and no backend failure is raised out of the call.
C5_NoBackendFailureEscapes ==
    /\ pc # "Raised"
    /\ raised = None
    /\ (outcome # None /\ BackendFailed /\ pc # "Awaiting") =>
           /\ candidates = <<>>
           /\ RankedNow => ranked[Len(ranked)] = None /\ pc \in {"Trying", "Failed"}

\* C5 for the failures that the except clause and the return code test name:
\* each gives the strategy an empty candidate list, and the next strategy, or
\* the Failure after the last one, follows.
C5_NamedFailuresAbsorbed ==
    (outcome # None /\ BackendFailed /\ raised = None /\ pc # "Awaiting") =>
        /\ candidates = <<>>
        /\ RankedNow => ranked[Len(ranked)] = None /\ pc \in {"Trying", "Failed"}

\* The state of the resolver's state machine.
ResolverState ==
    IF pc \in {"Trying", "Awaiting", "Ranking"} THEN << "TryingStrategy", idx >>
    ELSE << pc, 0 >>

C6_Step ==
    \/ ResolverState' = ResolverState
    \/ ResolverState = << "NotStarted", 0 >> /\ ResolverState' = << "TryingStrategy", 1 >>
    \/ /\ ResolverState[1] = "TryingStrategy"
       /\ \/ ResolverState' = << "Succeeded", 0 >>
          \/ ResolverState' = << "TryingStrategy", idx + 1 >>
          \/ ResolverState' = << "Failed", 0 >> /\ idx = Len(queries)

\* The steps the call has left at most: three for each strategy still to try.
C6_Measure ==
    IF pc = "NotStarted" THEN 3 * 7
    ELSE IF pc = "Trying" THEN 3 * (Len(queries) - idx) + 3
    ELSE IF pc = "Awaiting" THEN 3 * (Len(queries) - idx) + 2
    ELSE IF pc = "Ranking" THEN 3 * (Len(queries) - idx) + 1
    ELSE 0

\* C6: from NotStarted the resolver enters TryingStrategy(1); from
\* TryingStrategy(i) it goes only to Succeeded, to TryingStrategy(i + 1) or,
\* from the last strategy, to Failed; it never leaves Succeeded or Failed; it
\* makes at most len(strategies) backend calls; and every step brings it
\* nearer to Succeeded or Failed, which it therefore reaches.
C6_StateMachine ==
    /\ [][C6_Step /\ C6_Measure' < C6_Measure]_vars
    /\ [](pc # "NotStarted" => Len(searched) <= Len(queries))
    /\ [](pc \in {"Trying", "Awaiting", "Ranking"} => idx \in 1..Len(queries))

\* The state machine of C6 with one more successor of TryingStrategy(i): the
\* call aborted by an exception that leaves _yt_search.
C6_StateMachineOrAbort ==
    /\ [][/\ C6_Step \/ (ResolverState[1] = "TryingStrategy" /\ pc' = "Raised")
          /\ C6_Measure' < C6_Measure]_vars
    /\ [](pc # "NotStarted" => Len(searched) <= Len(queries))
    /\ [](pc \in {"Trying", "Awaiting", "Ranking"} => idx \in 1..Len(queries))

\* C7: build_search_queries returns a non-empty list, no two entries of which
\* are equal after collapsing whitespace and lower-casing, for every title and
\* artist list, the empty strings included.
C7_NonEmptyNoDuplicates ==
    pc # "NotStarted" =>
        /\ queries # <<>>
        /\ \A i, j \in 1..Len(queries) :
               i < j => lower(collapse(queries[i])) # lower(collapse(queries[j]))

\* The empty title and artist list: three strategies.
C7_Witness ==
    /\ pc # "NotStarted"
    /\ track_name = <<>>
    /\ artist = <<>>
    /\ Len(queries) = 3

\* The six candidates of the strategy list, whitespace-collapsed.
SixCandidates ==
    LET all_artists == _all_artists_spaced(artist)
        primary == _primary_artist(artist)
        title_no_feat == _strip_featured(track_name)
        title_no_parens == _strip_all_parens(track_name)
        c == << track_name \o <<" ">> \o all_artists,
                track_name \o <<" ">> \o primary,
                title_no_feat \o <<" ">> \o primary,
                title_no_parens \o <<" ">> \o primary,
                track_name \o <<" ">> \o primary \o <<" ","a","u","d","i","o">>,
                track_name \o <<" ">> \o primary \o <<" ","l","y","r","i","c","s">> >>
    IN  [i \in 1..6 |-> collapse(c[i])]

\* The candidates among c that no earlier candidate equals in lower case.
FirstOfItsSignature(c) ==
    LET sig == [i \in 1..Len(c) |-> lower(c[i])]
    IN  { i \in 1..Len(c) : \A j \in 1..(i - 1) : sig[j] # sig[i] }

\* C8: the output is the six-candidate sequence, each whitespace-collapsed,
\* without the candidates whose lower-cased form equals that of an earlier
\* candidate; what is left keeps its order and its letter case.
C8_SixCandidatesDeduplicated ==
    pc # "NotStarted" =>
        LET c == SixCandidates
            first == FirstOfItsSignature(c)
        IN  /\ Len(queries) = Cardinality(first)
            /\ \A k \in 1..Len(queries) :
                   \E i \in first :
                       /\ Cardinality({ j \in first : j <= i }) = k
                       /\ queries[k] = c[i]

\* "x" by "a;Audio": the audio strategy repeats the first one in lower case
\* and is dropped; the first one keeps its capital.
C8_Witness ==
    /\ pc # "NotStarted"
    /\ track_name = <<"x">>
    /\ artist = <<"a",";","A","u","d","i","o">>
    /\ queries = << <<"x"," ","a"," ","A","u","d","i","o">>, <<"x"," ","a">>,
                    <<"x"," ","a"," ","l","y","r","i","c","s">> >>

NoHint == duration_ms = None \/ duration_ms[1] <= 0

\* C9: with the target duration absent or <= 0 and a non-empty candidate
\* list, _pick_best returns the URL of the first candidate.
C9_NoHintTakesFirst ==
    (RankedNow /\ NoHint /\ candidates # <<>>) => url = Some(candidates[1].url)

\* A target of 0 and a first candidate that is the longer of two.
C9_Witness ==
    /\ RankedNow
    /\ duration_ms = Some(0)
    /\ Len(candidates) >= 2
    /\ candidates[1].duration_s > candidates[2].duration_s
    /\ url = Some(candidates[1].url)

\* C10: with a positive target, _pick_best returns no candidate longer than
\* 3 x target when some candidate is within 3 x target; when none is, it
\* selects among all the candidates and still returns a URL.
C10_RatioFilterWithFallback ==
    (RankedNow /\ ~NoHint /\ candidates # <<>>) =>
        LET t == duration_ms[1]
            within == { i \in 1..Len(candidates) : candidates[i].duration_s <= 3 * t }
        IN  /\ url # None
            /\ \E i \in 1..Len(candidates) : candidates[i].url = url[1]
            /\ within # {} =>
                   \A i \in 1..Len(candidates) :
                       candidates[i].url = url[1] => i \in within
            /\ within = {} =>
                   \E i \in 1..Len(candidates) :
                       /\ candidates[i].url = url[1]
                       /\ \A j \in 1..Len(candidates) :
                              Abs(candidates[i].duration_s - t)
                                  <= Abs(candidates[j].duration_s - t)

\* A target of 180 s and the single candidate of 900 s: it is returned.
C10_Witness ==
    /\ RankedNow
    /\ duration_ms = Some(180000)
    /\ Len(candidates) = 1
    /\ candidates[1].duration_s = 900000
    /\ url = Some(candidates[1].url)

\* A target of 60 s, a candidate of 200 s and one of 179 s: the one of 179 s.
C10_WitnessFiltered ==
    /\ RankedNow
    /\ duration_ms = Some(60000)
    /\ Len(candidates) = 2
    /\ candidates[1].duration_s = 200000
    /\ candidates[2].duration_s = 179000
    /\ url = Some(candidates[2].url)

\* The indices of the candidates that survive the ratio filter for a target
\* of t milliseconds: those no longer than three times the target, or all of
\* them when none is.
Surviving(t) ==
    LET within == {i \in 1..Len(candidates) : candidates[i].duration_s <= 3 * t}
    IN  IF within = {} THEN 1..Len(candidates) ELSE within

\* C11: with a positive target and at least one candidate, _pick_best returns
\* the URL of a surviving candidate whose duration is nearest to the target,
\* and of the candidates at that least distance it is the earliest in the
\* backend's order.
C11_NearestEarliestWins ==
    (RankedNow /\ ~NoHint /\ candidates # <<>>) =>
        LET t == duration_ms[1]
            surviving == Surviving(t)
            dist == [i \in 1..Len(candidates) |-> Abs(candidates[i].duration_s - t)]
            first == MinOf({i \in surviving : \A j \in surviving : dist[i] <= dist[j]})
        IN  url = Some(candidates[first].url)

\* A 181 s candidate ahead of a 179 s one under a 180 s target: the two are at
\* the same distance and the earlier one is returned.
C11_Witness ==
    /\ RankedNow
    /\ duration_ms = Some(180000)
    /\ Len(candidates) = 2
    /\ candidates[1] = [url |-> https("b"), duration_s |-> 181000]
    /\ candidates[2] = [url |-> https("c"), duration_s |-> 179000]
    /\ url = Some(https("b"))

C13_NormalizersIdempotent ==
    Len(cleaned) = 2 => cleaned[2] = cleaned[1]

\* Three of the four are: _primary_artist, _all_artists_spaced and
\* _strip_all_parens return their own output unchanged.
C13_AllButStripFeaturedIdempotent ==
    Len(cleaned) = 2 =>
        /\ cleaned[2].primary = cleaned[1].primary
        /\ cleaned[2].all_artists = cleaned[1].all_artists
        /\ cleaned[2].clean_all = cleaned[1].clean_all

FeaturingWords ==
    { <<"f","e","a","t">>, <<"f","t">>, <<"f","e","a","t","u","r","i","n","g">>,
      <<"w","i","t","h">> }

\* The title has a segment that opens with ( or [, has a ) or ] somewhere
\* after it, and whose text, after optional whitespace, starts with one of
\* the featuring words in any letter case.
HasFeatSegment(t) ==
    \E o \in 1..Len(t) :
        /\ t[o] \in {"(", "["}
        /\ \E c \in (o + 1)..Len(t) : t[c] \in {")", "]"}
        /\ \E k \in (o + 1)..Len(t), w \in FeaturingWords :
               /\ \A q \in (o + 1)..(k - 1) : IsSpace(t[q])
               /\ k + Len(w) - 1 <= Len(t)
               /\ lower(SubSeq(t, k, k + Len(w) - 1)) = w

Song == <<"S","o","n","g">>

SongBareFeatX == <<"S","o","n","g"," ","f","e","a","t","."," ","X">>

\* C14 as stated: a title with no bracketed segment that starts with a
\* featuring word is returned unchanged, and "Song (feat. X)" becomes "Song".
C14_OnlyBracketedCreditsStripped ==
    Len(cleaned) >= 1 =>
        /\ ~HasFeatSegment(track_name) => cleaned[1].clean_feat = track_name
        /\ track_name = SongFeatX => cleaned[1].clean_feat = Song

\* C14, amended: a title with no bracketed segment that starts with a
\* featuring word is returned with its leading and trailing whitespace
\* removed and otherwise unchanged, and "Song (feat. X)" becomes "Song".
C14_OnlyBracketedCreditsStrippedUpToTrim ==
    Len(cleaned) >= 1 =>
        /\ ~HasFeatSegment(track_name) =>
               LET kept == {i \in 1..Len(track_name) : track_name[i] \notin {" ", "\t", "\n"}}
               IN  cleaned[1].clean_feat =
                       IF kept = {} THEN <<>>
                       ELSE SubSeq(track_name, MinOf(kept), MaxOf(kept))
        /\ track_name = SongFeatX => cleaned[1].clean_feat = Song

\* "Song feat. X", a credit with no enclosing marks, has come back as it was.
C14_Witness ==
    /\ Len(cleaned) >= 1
    /\ track_name = SongBareFeatX
    /\ ~HasFeatSegment(track_name)
    /\ cleaned[1].clean_feat = SongBareFeatX

\* The number of opening marks less the number of closing marks in t[1..i].
Depth(t, i) ==
    Cardinality({p \in 1..i : t[p] \in {"(", "["}})
        - Cardinality({p \in 1..i : t[p] \in {")", "]"}})

\* The bracketed segments of t are closed and none lies within another.
Flat(t) ==
    /\ \A i \in 1..Len(t) : Depth(t, i) \in {0, 1}
    /\ Depth(t, Len(t)) = 0

\* The bracketed segments of a flat title, marks included, in order.
Segments(t) ==
    LET opens == {p \in 1..Len(t) : t[p] \in {"(", "["}}
    IN  [ n \in 1..Cardinality(opens) |->
            LET o == CHOOSE o \in opens : Cardinality({q \in opens : q <= o}) = n
                c == MinOf({p \in (o + 1)..Len(t) : t[p] \in {")", "]"}})
            IN  SubSeq(t, o, c) ]

FeaturingMarkers ==
    FeaturingWords \cup { <<"f","e","a","t",".">>, <<"f","t",".">> }

\* A bracketed segment that begins with a featuring marker: after the opening
\* mark and optional whitespace comes feat, feat., ft, ft., featuring or with
\* in any letter case, then a whitespace character, then at least one more
\* character before the closing mark.
IsFeatSegment(seg) ==
    \E k \in 2..Len(seg), m \in FeaturingMarkers :
        /\ \A q \in 2..(k - 1) : IsSpace(seg[q])
        /\ ~IsSpace(seg[k])
        /\ k + Len(m) + 1 < Len(seg)
        /\ lower(SubSeq(seg, k, k + Len(m) - 1)) = m
        /\ IsSpace(seg[k + Len(m)])

SongTwoCredits ==
    <<"S","o","n","g"," ","(","f","e","a","t","."," ","X",")"," ",
      "(","f","t","."," ","Y",")"," ","[","L","i","v","e","]">>

\* C15 as stated, on titles whose bracketed segments are not nested: when the
\* title has a segment that begins with a featuring marker, one application
\* removes one segment and leaves every other one in place.
C15_OneCreditRemoved ==
    (Len(cleaned) >= 1 /\ Flat(track_name)) =>
        LET before == Segments(track_name)
            after == Segments(cleaned[1].clean_feat)
        IN  (\E n \in 1..Len(before) : IsFeatSegment(before[n])) =>
                /\ Len(after) = Len(before) - 1
                /\ \A n \in 1..Len(before) :
                       ~IsFeatSegment(before[n]) =>
                           \E a \in 1..Len(after) : after[a] = before[n]

\* C15, amended: on titles whose bracketed segments are not nested, one
\* application removes every segment that begins with a featuring marker,
\* not one of them only, and leaves the other bracketed segments in place
\* and in order.
C15_EveryCreditRemoved ==
    (Len(cleaned) >= 1 /\ Flat(track_name)) =>
        /\ Flat(cleaned[1].clean_feat)
        /\ Segments(cleaned[1].clean_feat) =
               SelectSeq(Segments(track_name), LAMBDA seg : ~IsFeatSegment(seg))

\* "Song (feat. X) (ft. Y) [Live]" has become "Song [Live]".
C15_Witness ==
    /\ Len(cleaned) >= 1
    /\ track_name = SongTwoCredits
    /\ Flat(track_name)
    /\ Len(Segments(track_name)) = 3
    /\ cleaned[1].clean_feat = <<"S","o","n","g"," ","[","L","i","v","e","]">>

SongRemixLive ==
    <<"S","o","n","g"," ","(","R","e","m","i","x",")"," ","[","L","i","v","e","]">>

\* C16: the value of _strip_all_parens has no ( or [ with a ) or ] anywhere
\* after it, whatever the title and whatever the segments hold, and
\* "Song (Remix) [Live]" becomes "Song".
C16_NoBracketedSegmentLeft ==
    Len(cleaned) >= 1 =>
        LET r == cleaned[1].clean_all
        IN  /\ \A i \in 1..Len(r), j \in 1..Len(r) :
                   ~(i < j /\ r[i] \in {"(", "["} /\ r[j] \in {")", "]"})
            /\ track_name = SongRemixLive => r = Song

\* "Song (Remix) [Live]" has lost both segments and the blanks before them.
C16_Witness ==
    /\ Len(cleaned) >= 1
    /\ track_name = SongRemixLive
    /\ cleaned[1].clean_all = Song

\* C17: _pick_best returns None if and only if the candidate list is empty.
\* For a non-empty list and any target (absent, zero, negative or positive)
\* it returns the URL of a listed candidate, and the call succeeds with that
\* URL: no strategy is rejected for the durations of its candidates.
C17_NoneOnlyForNoCandidates ==
    RankedNow =>
        /\ url = None <=> candidates = <<>>
        /\ candidates # <<>> =>
               /\ \E i \in 1..Len(candidates) : url = Some(candidates[i].url)
               /\ pc = "Succeeded"
               /\ result # None /\ result[1][1] = url[1]

\* Under a target of 60 s the candidates are of 900 s and of 200 s, both
\* beyond three times the target, and one of them is returned.
C17_Witness ==
    /\ RankedNow
    /\ duration_ms = Some(60000)
    /\ Len(candidates) = 2
    /\ candidates[1].duration_s = 900000
    /\ candidates[2].duration_s = 200000
    /\ url = Some(candidates[2].url)
    /\ pc = "Succeeded"

\* An empty candidate list for the last strategy: None, and the call fails.
C17_WitnessEmpty ==
    /\ RankedNow
    /\ candidates = <<>>
    /\ url = None
    /\ pc = "Failed"

\* C19: a candidate of duration 0 (the value given to a line whose duration
\* is missing or is no number) passes the ratio filter of every positive
\* target t and stands at distance t from it: it is the one returned when
\* every other surviving candidate is farther than t from the target.
C19_ZeroDurationCompetes ==
    (RankedNow /\ ~NoHint /\ candidates # <<>>) =>
        LET t == duration_ms[1]
            surviving == Surviving(t)
        IN  \A z \in 1..Len(candidates) :
                candidates[z].duration_s = 0 =>
                    /\ z \in surviving
                    /\ Abs(candidates[z].duration_s - t) = t
                    /\ (\A j \in surviving \ {z} :
                            Abs(candidates[j].duration_s - t) > t)
                           => url = Some(candidates[z].url)

\* Under a target of 60 s a line with the duration NA comes after a candidate
\* of 179 s, which is 119 s off: the candidate of the NA line is returned.
C19_Witness ==
    /\ RankedNow
    /\ duration_ms = Some(60000)
    /\ candidates = << [url |-> https("c"), duration_s |-> 179000],
                       [url |-> https("e"), duration_s |-> 0] >>
    /\ url = Some(https("e"))

\* The text of a line up to the blank before its last word, or the whole
\* line when it has one word: what stands for the URL.
UrlField(line) ==
    LET blanks == {i \in 2..Len(line) : line[i] = " "}
    IN  IF blanks = {} THEN line ELSE SubSeq(line, 1, MaxOf(blanks) - 1)

HasHttpPrefix(u) ==
    Len(u) >= 4 /\ u[1] = "h" /\ u[2] = "t" /\ u[3] = "t" /\ u[4] = "p"

\* The lines of an output of the model, each of which ends with a line feed.
RECURSIVE OutputLinesOf(_)
OutputLinesOf(out) ==
    IF out = <<>> THEN <<>>
    ELSE LET nl == MinOf({i \in 1..Len(out) : out[i] = "\n"})
         IN  << SubSeq(out, 1, nl - 1) >> \o OutputLinesOf(SubSeq(out, nl + 1, Len(out)))

\* C20: a line of the output whose URL does not begin with http is dropped
\* and nothing else happens: no exception is raised for it, the candidates are
\* the other lines of that output in their order, and no URL that the call
\* returns lacks the prefix.
C20_BadLinesDroppedAlone ==
    /\ (pc = "Ranking" /\ stdout # None /\ outcome[1].returncode = 0) =>
           LET kept == SelectSeq(OutputLinesOf(stdout[1]),
                                 LAMBDA line : HasHttpPrefix(UrlField(line)))
           IN  /\ Len(candidates) = Len(kept)
               /\ \A n \in 1..Len(kept) : candidates[n].url = UrlField(kept[n])
    /\ (pc = "Raised") => (outcome # None /\ outcome[1].exc # None)
    /\ (pc = "Succeeded") => (result # None /\ HasHttpPrefix(result[1][1]))

\* The output "ftp://g 180" then "https://b 181": the first line is dropped
\* and the second is the one candidate.
C20_Witness ==
    /\ pc = "Ranking"
    /\ stdout = Some(<<"f","t","p",":","/","/","g"," ","1","8","0","\n">>
                       \o https("b") \o <<" ","1","8","1","\n">>)
    /\ outcome[1].returncode = 0
    /\ candidates = << [url |-> https("b"), duration_s |-> 181000] >>

\* What a call that runs alone returns or raises, from strategy i on, when
\* _yt_search gives it the responses resp one after the other; "Running" when
\* the responses run out first.
RECURSIVE AloneFrom(_, _, _, _)
AloneFrom(qs, d, resp, i) ==
    IF i > Len(qs)
    THEN [pc |-> "Failed", result |-> Some(<< <<>>, FailureText(Len(qs)) >>),
          raised |-> None]
    ELSE IF i > Len(resp)
    THEN [pc |-> "Running", result |-> None, raised |-> None]
    ELSE IF resp[i].raised # None
    THEN [pc |-> "Raised", result |-> None, raised |-> resp[i].raised]
    ELSE IF Truthy(_pick_best(resp[i].candidates, d))
    THEN [pc |-> "Succeeded",
          result |-> Some(<< _pick_best(resp[i].candidates, d)[1],
                             StrategyText(i, Len(qs), qs[i]) >>),
          raised |-> None]
    ELSE AloneFrom(qs, d, resp, i + 1)

\* C18: a call that ran interleaved with others has sent the backend its own
\* strategies, in order, and has ended as a call running alone ends on the
\* responses it got: the same result, or the same exception.
C18_CallsIndependent ==
    \A c \in CallIds :
        LET call == calls[c]
            qs == build_search_queries(call.track_name, call.artist)
            alone == AloneFrom(qs, call.duration_ms, call.responses, 1)
        IN  /\ \A n \in 1..Len(call.searched) :
                   n <= Len(qs) /\ call.searched[n] = qs[n]
            /\ call.pc \in {"Succeeded", "Failed", "Raised"} =>
                   /\ alone.pc = call.pc
                   /\ alone.result = call.result
                   /\ alone.raised = call.raised

\* Two calls for different tracks, each of which took steps while the other
\* was under way: one has succeeded at its second strategy, the other has
\* failed after its three.
C18_Witness ==
    /\ calls["a"].track_name # calls["b"].track_name
    /\ calls["a"].overlapped /\ calls["b"].overlapped
    /\ calls["a"].pc = "Succeeded" /\ Len(calls["a"].searched) = 2
    /\ calls["b"].pc = "Failed" /\ Len(calls["b"].searched) = 3

\* The duplicate test's key for a query: whitespace collapsed, lower case.
Signature(q) == lower(collapse(q))

\* C24: whatever the title and the artists, build_search_queries returns
\* between three and six strategies: the title with the primary artist, and
\* that query followed by " audio" and by " lyrics", have three different
\* signatures, so the call never fails for want of a strategy and the count
\* in its failure text is one of 3..6.
C24_ThreeToSixStrategies ==
    pc # "NotStarted" =>
        LET c == SixCandidates
            plain == Signature(c[2])
            audio == Signature(c[5])
            lyrics == Signature(c[6])
        IN  /\ plain # audio /\ plain # lyrics /\ audio # lyrics
            /\ {plain, audio, lyrics} \subseteq { Signature(queries[n]) : n \in 1..Len(queries) }
            /\ Len(queries) \in 3..6
            /\ pc = "Trying" /\ result = None

\* "x" by "a;Audio": of the six candidates three are left, the " audio"
\* variant being the first query again but for the case of a letter.
C24_Witness ==
    /\ pc = "Trying"
    /\ track_name = <<"x">>
    /\ artist = <<"a",";","A","u","d","i","o">>
    /\ Len(queries) = 3

\* The songs processed so far whose download succeeded (ok = TRUE) or failed
\* (ok = FALSE), in the order of the CSV.
SongsWithVerdict(ok) ==
    LET at == {k \in 1..script.i : script.verdicts[k] = ok}
    IN  [ n \in 1..Cardinality(at) |->
            script.songs[CHOOSE k \in at : Cardinality({j \in at : j <= k}) = n] ]

SameSong(entry, song) ==
    /\ entry.track_name = song.track_name
    /\ entry.artist = song.artist
    /\ entry.album = song.album
    /\ entry.duration_ms = song.duration_ms

\* C22: after each song, the songs processed so far are split between
\* successful and failures, each in one of them and in the order of the CSV;
\* once there is a success output.json holds successful, and once there is a
\* failure failures.json holds failures.
C22_ListsAndFilesInStep ==
    LET won == SongsWithVerdict(TRUE)
        lost == SongsWithVerdict(FALSE)
    IN  /\ Len(script.verdicts) = script.i
        /\ Len(script.successful) = Len(won)
        /\ Len(script.failures) = Len(lost)
        /\ \A n \in 1..Len(won) : SameSong(script.successful[n], won[n])
        /\ \A n \in 1..Len(lost) : SameSong(script.failures[n], lost[n])
        /\ script.successful # <<>> => disk.output_json = Some(script.successful)
        /\ script.failures # <<>> => disk.failures_json = Some(script.failures)

\* Two songs, the first failed and the second downloaded: each file holds
\* the list of this run.
C22_Witness ==
    /\ script.i = 2
    /\ script.verdicts = << FALSE, TRUE >>
    /\ Len(script.failures) = 1 /\ Len(script.successful) = 1
    /\ disk.failures_json = Some(script.failures)
    /\ disk.output_json = Some(script.successful)

\* C25: in the output directory of a run that has processed a song,
\* failures.json is not there without output.json.
C25_FailuresJsonImpliesOutputJson ==
    (script.i > 0 /\ disk.failures_json # None) => disk.output_json # None

\* The input failures retried so far whose retry succeeded (ok = TRUE) or did
\* not (ok = FALSE), in the order of the input.
FailuresWithVerdict(ok) ==
    LET at == {k \in 1..script.i : script.verdicts[k] = ok}
    IN  [ n \in 1..Cardinality(at) |->
            script.failures[CHOOSE k \in at : Cardinality({j \in at : j <= k}) = n] ]

\* C21: when process_failures has completed on a non-empty failures list,
\* failures.json holds one entry for each input failure whose retry did not
\* succeed, in the order of the input, and is gone when there is none; and
\* success_count plus the number of remaining failures is the number of input
\* failures.
C21_RemainingFailuresOnDisk ==
    script.pc = "Done" =>
        LET lost == FailuresWithVerdict(FALSE)
        IN  /\ script.i = Len(script.failures)
            /\ script.success_count + Len(script.remaining_failures)
                   = Len(script.failures)
            /\ script.success_count = Len(FailuresWithVerdict(TRUE))
            /\ IF lost = <<>> THEN disk.failures_json = None
               ELSE /\ disk.failures_json # None
                    /\ Len(disk.failures_json[1]) = Len(lost)
                    /\ \A n \in 1..Len(lost) :
                         /\ disk.failures_json[1][n].track_name = lost[n].track_name
                         /\ disk.failures_json[1][n].artist = lost[n].artist

\* Two failures were retried, the first downloaded and the second still
\* failing: failures.json holds the second alone.
C21_Witness ==
    /\ script.pc = "Done"
    /\ script.verdicts = << TRUE, FALSE >>
    /\ script.failures[1].track_name # script.failures[2].track_name
    /\ disk.failures_json # None
    /\ Len(disk.failures_json[1]) = 1
    /\ disk.failures_json[1][1].track_name = script.failures[2].track_name

\* Every retry succeeded: failures.json is removed.
C21_WitnessRemoved ==
    /\ script.pc = "Done"
    /\ script.verdicts = << TRUE, TRUE >>
    /\ disk.failures_json = None

\* C28: a failure that is still failing after the run has in the new
\* failures.json the duration_ms it had in the input.
C28_DurationHintKept ==
    script.pc = "Done" =>
        LET lost == FailuresWithVerdict(FALSE)
        IN  \A n \in 1..Len(lost) :
                disk.failures_json[1][n].duration_ms = lost[n].duration_ms

\* C23: with --dry-run the disk stays as it was before the run: no song file
\* moved or deleted, no directory created or removed, no output.json
\* rewritten.
C23_DryRunLeavesDiskAlone ==
    script.dry_run => disk = script.before

\* C26: after a migration that is not a dry run, in every output.json it
\* rewrote, a track to which the run gave a songs/ path has its file in
\* songs/, and a track whose source file was not found has the local_path it
\* had. (Tracks that had a songs/ path before the run are left out: the run
\* does not write them.)
C26_SongsPathsHaveFiles ==
    (script.pc = "Done" /\ ~script.dry_run) =>
        \A j \in script.updated_json_files :
            \A n \in 1..Len(disk.json[j]) :
                LET now == disk.json[j][n].local_path
                    was == script.before.json[j][n].local_path
                IN  /\ (StartsWithSongs(now) /\ ~StartsWithSongs(was))
                           => now \in disk.files
                    /\ (was # <<>> /\ Name(was) \in script.not_found)
                           => now = was

\* C27: a run issues no download for a video whose thumbnail a run before it
\* has saved.
C27_NoSecondDownload ==
    script.requested \cap script.saved = {}

====
